---- MODULE Spec2Model ----
(***************************************************************************)
(* Model of cellconstructor.symmetries.QE_Symmetry: the symmetry table of  *)
(* a crystal, its discovery for a q point (SetupQPoint), the partition of  *)
(* a q point list into stars (SetupQStar) and the symmetrize/apply         *)
(* operations that use the table.                                          *)
(*                                                                         *)
(* Geometry.  The unit cell is the simple cubic cell of side 1, so that    *)
(* crystal and cartesian components coincide.  Atomic positions and q      *)
(* points are integer triples in units of 1/4 (of the cell side, of the    *)
(* reciprocal lattice vector): the triple <<2,0,0>> is the vector          *)
(* (0.5,0,0).  Two vectors are equivalent modulo the lattice when their    *)
(* components agree modulo 4.  The thresholds of the code (1e-5) are far   *)
(* below the grid step, so "within tolerance" is equality on the grid.     *)
(***************************************************************************)
EXTENDS Integers, Sequences, FiniteSets, TLC

\* ------------------------------------------------------------------------
\* Bounds
\* ------------------------------------------------------------------------

\* Longest q point list handed to SetupQStar
MaxLen == 4

\* Longest star handed to ApplyQStar
MaxStar == 3

\* ------------------------------------------------------------------------
\* Integer vectors and matrices
\* ------------------------------------------------------------------------

Zero3 == <<0, 0, 0>>

Dot(a, b) == a[1] * b[1] + a[2] * b[2] + a[3] * b[3]

\* ndarray.dot of a 3x3 matrix (tuple of rows) with a vector
MatVec(m, v) == <<Dot(m[1], v), Dot(m[2], v), Dot(m[3], v)>>

\* np.transpose of a 3x3 matrix
Transpose(m) == << <<m[1][1], m[2][1], m[3][1]>>,
                   <<m[1][2], m[2][2], m[3][2]>>,
                   <<m[1][3], m[2][3], m[3][3]>> >>

Column(m, j) == <<m[1][j], m[2][j], m[3][j]>>

MatMul(a, b) == << <<Dot(a[1], Column(b, 1)), Dot(a[1], Column(b, 2)), Dot(a[1], Column(b, 3))>>,
                   <<Dot(a[2], Column(b, 1)), Dot(a[2], Column(b, 2)), Dot(a[2], Column(b, 3))>>,
                   <<Dot(a[3], Column(b, 1)), Dot(a[3], Column(b, 2)), Dot(a[3], Column(b, 3))>> >>

VecAdd(a, b) == <<a[1] + b[1], a[2] + b[2], a[3] + b[3]>>

VecSub(a, b) == <<a[1] - b[1], a[2] - b[2], a[3] - b[3]>>

VecNeg(a) == <<-a[1], -a[2], -a[3]>>

Identity3 == << <<1, 0, 0>>, <<0, 1, 0>>, <<0, 0, 1>> >>

ZeroMat3 == << <<0, 0, 0>>, <<0, 0, 0>>, <<0, 0, 0>> >>

\* Python int(): truncation towards zero, here of x/4 for x in units of 1/4
TruncQuarter(x) == IF x >= 0 THEN x \div 4 ELSE -((-x) \div 4)

\* "aq[i] = aq[i] - int(aq[i]); if aq[i] < 0: aq[i] += 1" on one component
FixInBZ(x) ==
    LET y == x - 4 * TruncQuarter(x)
    IN  IF y < 0 THEN y + 4 ELSE y

FixVecInBZ(v) == <<FixInBZ(v[1]), FixInBZ(v[2]), FixInBZ(v[3])>>

\* eqvect of the symmetry finder: equal modulo a lattice vector
EqVect(a, b) == \A i \in 1..3 : (a[i] - b[i]) % 4 = 0

\* Methods.covariant_coordinates(QE_bg.transpose(), q): the components of q
\* on the reciprocal basis; the basis of the unit cubic cell is the identity.
covariant_coordinates(q) == MatVec(Identity3, q)

\* Distance of one component from the nearest periodic image (units 1/4)
MinImage(d) == LET r == d % 4 IN IF r > 2 THEN 4 - r ELSE r

\* Methods.get_min_dist_into_cell(QE_bg.transpose(), v1, v2): the distance of
\* v2 from the nearest periodic image of v1, here squared and in units 1/16.
get_min_dist_into_cell(v1, v2) ==
    MinImage(v1[1] - v2[1]) * MinImage(v1[1] - v2[1])
  + MinImage(v1[2] - v2[2]) * MinImage(v1[2] - v2[2])
  + MinImage(v1[3] - v2[3]) * MinImage(v1[3] - v2[3])

\* ------------------------------------------------------------------------
\* The structures (CC.Structure.Structure) the table is built on
\* ------------------------------------------------------------------------

\* atoms: the species labels; coords: the positions, units of 1/4
Structures ==
    { [name |-> "cubic", atoms |-> <<"A">>,
       coords |-> << <<0, 0, 0>> >>],
      [name |-> "polar", atoms |-> <<"A", "B">>,
       coords |-> << <<0, 0, 0>>, <<0, 0, 1>> >>],
      [name |-> "layer", atoms |-> <<"A", "B", "C">>,
       coords |-> << <<0, 0, 0>>, <<1, 0, 0>>, <<0, 2, 1>> >>] }

N_atoms(st) == Len(st.atoms)

\* QE_ityp of __init__: species ranked by first appearance
QE_ityp_of(st) ==
    [i \in 1..N_atoms(st) |->
        Cardinality({st.atoms[j] : j \in {k \in 1..i :
            \A l \in 1..(k - 1) : st.atoms[l] # st.atoms[k]}})]

\* ------------------------------------------------------------------------
\* The symmetry finder (module symph): operations of the lattice, of the
\* crystal and of the small group of q
\* ------------------------------------------------------------------------

AxisPerms == << <<1, 2, 3>>, <<1, 3, 2>>, <<2, 1, 3>>,
                <<2, 3, 1>>, <<3, 1, 2>>, <<3, 2, 1>> >>

AxisSigns == << <<1, 1, 1>>, <<-1, -1, -1>>, <<-1, -1, 1>>, <<1, 1, -1>>,
                <<-1, 1, -1>>, <<1, -1, 1>>, <<1, -1, -1>>, <<-1, 1, 1>> >>

SignedPerm(p, sg) ==
    [i \in 1..3 |-> [j \in 1..3 |-> IF j = p[i] THEN sg[i] ELSE 0]]

\* symm_base.set_sym_bl: the rotations of the cubic Bravais lattice, the
\* identity first (nrot = 48)
set_sym_bl ==
    [k \in 1..(Len(AxisPerms) * Len(AxisSigns)) |->
        SignedPerm(AxisPerms[((k - 1) \div Len(AxisSigns)) + 1],
                   AxisSigns[((k - 1) % Len(AxisSigns)) + 1])]

nrot == Len(set_sym_bl)

\* First atom nb of the species of na whose position is the image x, 0 if none
AtomAt(st, na, x) ==
    LET ityp == QE_ityp_of(st)
        hits == {nb \in 1..N_atoms(st) :
                    ityp[nb] = ityp[na] /\ EqVect(x, st.coords[nb])}
    IN  IF hits = {} THEN 0 ELSE CHOOSE nb \in hits : \A o \in hits : nb <= o

\* The atom every atom is sent to by the rotation s followed by ft
IrtOf(st, s, ft) ==
    [na \in 1..N_atoms(st) |->
        AtomAt(st, na, VecAdd(MatVec(Transpose(s), st.coords[na]), ft))]

IsSymmetry(st, s, ft) == \A na \in 1..N_atoms(st) : IrtOf(st, s, ft)[na] # 0

\* Fractional translations tried for the rotation s: zero first, then the
\* ones that send the first atom onto an atom of its species
FtCandidates(st, s) ==
    <<Zero3>> \o
    [nb \in 1..N_atoms(st) |->
        FixVecInBZ(VecSub(st.coords[nb], MatVec(Transpose(s), st.coords[1])))]

FirstFt(st, s) ==
    LET c  == FtCandidates(st, s)
        ok == {i \in 1..Len(c) : IsSymmetry(st, s, c[i])}
    IN  IF ok = {} THEN <<>> ELSE <<c[CHOOSE i \in ok : \A o \in ok : i <= o]>>

\* One row of the finder's tables: rotation, fractional translation, atom map
Entry(st, s) ==
    LET f == FirstFt(st, s)
    IN  IF f = <<>>
        THEN [s |-> s, ft |-> Zero3, irt |-> [na \in 1..N_atoms(st) |-> 0], sym |-> FALSE]
        ELSE [s |-> s, ft |-> f[1], irt |-> IrtOf(st, s, f[1]), sym |-> TRUE]

\* symm_base.copy_sym(n, sym): bring the flagged rows among the first n to the
\* front by swaps; the rows past n are left where they are
RECURSIVE CopySymFrom(_, _, _, _)
CopySymFrom(rows, n, irot, jrot) ==
    IF irot > n THEN rows
    ELSE IF rows[irot].sym
         THEN CopySymFrom([rows EXCEPT ![jrot + 1] = rows[irot],
                                        ![irot] = rows[jrot + 1]],
                          n, irot + 1, jrot + 1)
         ELSE CopySymFrom(rows, n, irot + 1, jrot)

copy_sym(rows, n) == CopySymFrom(rows, n, 1, 0)

CountSym(rows, n) == Cardinality({i \in 1..n : rows[i].sym})

\* symm_base.find_sym(tau, ityp, ...): the rows of the crystal's operations
\* first, nsym of them
find_sym(st) ==
    copy_sym([k \in 1..nrot |-> Entry(st, set_sym_bl[k])], nrot)

\* symm_base.smallg_q(aq, 0, syms): keeps the flag of the operations with
\* S.q = q + G; an exactly zero q returns at once with every flag kept
smallg_q_syms(rows, nsym, aq) ==
    [k \in 1..nrot |->
        [rows[k] EXCEPT !.sym =
            k <= nsym /\ rows[k].sym
            /\ (aq = Zero3 \/ EqVect(MatVec(rows[k].s, aq), aq))]]

\* the value smallg_q returns: some operation of the crystal has S.q = -q + G
smallg_q_minus_q(rows, nsym, aq) ==
    \/ aq = Zero3
    \/ \E k \in 1..nsym : EqVect(VecNeg(MatVec(rows[k].s, aq)), aq)

\* symm_base.inverse_s: for each of the nsym operations the index of the
\* operation whose rotation is its inverse, 0 past nsym
inverse_s(rows, nsym) ==
    [k \in 1..nrot |->
        IF k > nsym THEN 0
        ELSE LET inv == {j \in 1..nsym : MatMul(rows[k].s, rows[j].s) = Identity3}
             IN  IF inv = {} THEN 0 ELSE CHOOSE j \in inv : \A o \in inv : j <= o]

\* symph.sgam_ph_new: S.tau(na) - tau(irt(S, na)) for the nsym operations
sgam_ph_new(st, rows, nsym) ==
    [k \in 1..nrot |->
        [na \in 1..N_atoms(st) |->
            IF k > nsym THEN Zero3
            ELSE VecSub(MatVec(Transpose(rows[k].s), st.coords[na]),
                        st.coords[rows[k].irt[na]])]]

\* ------------------------------------------------------------------------
\* State
\* ------------------------------------------------------------------------

VARIABLES
    structure,    \* self.structure
    symph,        \* the compiled symmetry finder as loaded for the structure:
                  \* symph[q] is what it answers SetupQPoint at the q point q
    threshold,    \* self.threshold, in units of 1e-5
    accep,        \* the acceptance threshold held by the symmetry finder
    QE_s,         \* rotations, one 3x3 integer matrix per row (48 rows)
    QE_ft,        \* fractional translations
    QE_irt,       \* QE_irt[op][atom]: the atom (from 1) the operation sends atom to
    QE_invs,      \* index (from 1) of the inverse of each operation
    QE_rtau,      \* QE_rtau[op][atom]: shift caused by the operation
    QE_minus_q,   \* some operation sends q to -q
    QE_irotmq,    \* index (from 1) of that operation
    QE_nsymq,     \* number of operations of the small group of q
    QE_nsym,      \* number of rotations of the Bravais lattice
    QE_minusq,    \* the attribute InitFromSymmetries creates (line 666)
    pc,           \* "idle", the method whose loop is running, or "done"
    q_tot,        \* SetupQStar: the argument
    q_list,       \* SetupQStar: the q points still to be assigned
    q_stars,      \* SetupQStar: the stars built so far
    q_indices,    \* SetupQStar: the index array (entries from 0)
    count_q,      \* SetupQStar: entries of q_indices written so far
    q_point_group,\* ApplyQStar: the q points of the star handed in
    fcq,          \* ApplyQStar: the caller's matrices, one per q point
    final_fc,     \* ApplyQStar: the local accumulator
    star_i,       \* ApplyQStar: originating members done so far
    out,          \* the argument a one-pass method overwrote or returned
    call,         \* the call running or just finished: method, argument, outcome
    symph_call,   \* the arguments of the last call into the symmetry finder
    files,        \* the dynamical matrix files on disk: path -> lines
    objs,         \* the Phonons objects alive: name -> fields; the fields
                  \* dynmats, q_tot and q_stars hold the address of a list
    mem,          \* the Python lists: mem[address] is the list's content
    symfcq        \* SymmetrizeFCQ: its arguments, its locals and what it
                  \* has called so far

\* what the constructor fixes and ChangeThreshold alone changes
configVars == <<structure, symph, threshold, accep>>

tableVars == <<QE_s, QE_ft, QE_irt, QE_invs, QE_rtau, QE_minus_q, QE_irotmq,
               QE_nsymq, QE_nsym, QE_minusq>>

starVars == <<q_tot, q_list, q_stars, q_indices, count_q>>

applyVars == <<q_point_group, fcq, final_fc, star_i>>

phononVars == <<files, objs, mem>>

vars == <<configVars, tableVars, pc, starVars, applyVars, out, call, symph_call,
          phononVars, symfcq>>

\* The fields of the table as one record
Table ==
    [QE_s |-> QE_s, QE_ft |-> QE_ft, QE_irt |-> QE_irt, QE_invs |-> QE_invs,
     QE_rtau |-> QE_rtau, QE_minus_q |-> QE_minus_q, QE_irotmq |-> QE_irotmq,
     QE_nsymq |-> QE_nsymq, QE_nsym |-> QE_nsym]

\* __init__: every array zeroed, no operation
NewTable(st) ==
    [QE_s       |-> [k \in 1..nrot |-> ZeroMat3],
     QE_ft      |-> [k \in 1..nrot |-> Zero3],
     QE_irt     |-> [k \in 1..nrot |-> [na \in 1..N_atoms(st) |-> 0]],
     QE_invs    |-> [k \in 1..nrot |-> 0],
     QE_rtau    |-> [k \in 1..nrot |-> [na \in 1..N_atoms(st) |-> Zero3]],
     QE_minus_q |-> FALSE,
     QE_irotmq  |-> 0,
     QE_nsymq   |-> 0,
     QE_nsym    |-> 0]

\* GetSymmetries of a table: the first QE_nsymq operations as 3x4 blocks,
\* rot the transposed rotation and tr the fractional translation
GetSymmetries(T) ==
    [i \in 1..T.QE_nsymq |-> [rot |-> Transpose(T.QE_s[i]), tr |-> T.QE_ft[i]]]

\* "for k, sym in enumerate(syms): ... if np.sum((new_q - aq)**2) < eps:
\*  QE_irotmq = k + 1; break": the first operation of syms that passes the
\* test, `old` when none does
IrotmqMatch(sym, aq) == FixVecInBZ(MatVec(sym.rot, aq)) = aq

FindIrotmq(syms, aq, old) ==
    LET hit == {k \in 1..Len(syms) : IrotmqMatch(syms[k], aq)}
    IN  IF hit = {} THEN old ELSE CHOOSE k \in hit : \A o \in hit : k <= o

\* SetupQPoint, lines 538-598: what the symmetry finder returns for the
\* structure st and the q point, as the fields the method assigns
Discover(st, q_point) ==
    LET aq      == covariant_coordinates(q_point)
        crystal == find_sym(st)
        nsym    == CountSym(crystal, nrot)
        flagged == smallg_q_syms(crystal, nsym, aq)
        rows    == copy_sym(flagged, nsym)
    IN  [QE_s       |-> [k \in 1..nrot |-> rows[k].s],
         QE_ft      |-> [k \in 1..nrot |-> rows[k].ft],
         QE_nsym    |-> nrot,
         QE_minus_q |-> smallg_q_minus_q(crystal, nsym, aq),
         QE_nsymq   |-> CountSym(flagged, nsym),
         QE_invs    |-> inverse_s(rows, nsym),
         QE_irt     |-> [k \in 1..nrot |-> rows[k].irt],
         QE_rtau    |-> sgam_ph_new(st, rows, nsym)]

\* q points handed to the methods: Gamma, the three X points, a point of the
\* z axis, a point of the y axis, and Gamma displaced by a lattice vector
QPoints == { <<0, 0, 0>>, <<2, 0, 0>>, <<0, 2, 0>>, <<0, 0, 2>>,
             <<0, 0, 1>>, <<0, 1, 0>>, <<4, 0, 0>> }

\* A default q point that is not the zero vector
q_point_default_mut == <<0, 0, 1>>

\* The default of the q_point parameter of SetupQPoint: np.zeros(3)
q_point_default == <<0, 0, 0>>

\* SetupQPoint(q_point) on the table T: the table it leaves.
\* QE_irotmq is assigned only when the finder reports a minus-q operation.
SetupQPointTable(T, q_point) ==
    LET d     == symph[q_point]
        found == [T EXCEPT
                    !.QE_s       = d.QE_s,
                    !.QE_ft      = d.QE_ft,
                    !.QE_nsym    = d.QE_nsym,
                    !.QE_minus_q = d.QE_minus_q,
                    !.QE_nsymq   = d.QE_nsymq,
                    !.QE_invs    = d.QE_invs,
                    !.QE_irt     = d.QE_irt,
                    !.QE_rtau    = d.QE_rtau]
    IN  IF found.QE_minus_q
        THEN [found EXCEPT !.QE_irotmq =
                 FindIrotmq(GetSymmetries(found),
                            FixVecInBZ(covariant_coordinates(q_point)),
                            T.QE_irotmq)]
        ELSE found

SetFields(T) ==
    /\ QE_s' = T.QE_s
    /\ QE_ft' = T.QE_ft
    /\ QE_irt' = T.QE_irt
    /\ QE_invs' = T.QE_invs
    /\ QE_rtau' = T.QE_rtau
    /\ QE_minus_q' = T.QE_minus_q
    /\ QE_irotmq' = T.QE_irotmq
    /\ QE_nsymq' = T.QE_nsymq
    /\ QE_nsym' = T.QE_nsym

\* the table becomes T; the attribute of line 666 is not a field of it
SetTable(T) ==
    /\ SetFields(T)
    /\ QE_minusq' = QE_minusq

\* ------------------------------------------------------------------------
\* Inputs
\* ------------------------------------------------------------------------

\* arguments of SetupQPoint that are not 3-component vectors
BadQPoints == { <<0, 0>>, <<0, 0, 0, 0>> }

\* q points the q point lists are made of
StarPoints == { <<0, 0, 0>>, <<2, 0, 0>>, <<0, 2, 0>>, <<0, 0, 2>>,
                <<4, 0, 0>> }

QLists == UNION { [1..n -> StarPoints] : n \in 0..MaxLen }

NoSymphCall == [name |-> "none", nsymq |-> 0, s |-> <<>>]

NoCall == [op |-> "none", arg |-> <<>>, err |-> "none"]

NoOut == [kind |-> "none"]

\* The record of a call of method op: err is "running" while its loop runs,
\* "none" when it returned, the error when it raised
CallRec(op, arg, err) == [op |-> op, arg |-> arg, err |-> err]

\* ------------------------------------------------------------------------
\* Dynamical matrix files (Phonons.save_qe, Phonons.LoadFromQE)
\* ------------------------------------------------------------------------

\* A line of a file is kept as text, the characters of the line that are
\* not part of a number (after line.strip()), and nums, the numbers of the
\* line in order. Matrix entries and q components are integers in units of
\* 1e-9; a printed matrix entry is an integer in units of 1e-8.
Line(text, nums) == [text |-> text, nums |-> nums]

\* "pat in line"
Contains(text, pat) ==
    \E i \in 1..(Len(text) - Len(pat) + 1) :
        SubSeq(text, i, i + Len(pat) - 1) = pat

\* the literals LoadFromQE looks for (lines 191, 205, 208, 213)
Pat ==
    [header |->
        <<"D", "y", "n", "a", "m", "i", "c", "a", "l", " ", " ", "M", "a",
          "t", "r", "i", "x", " ", "i", "n", " ", "c", "a", "r", "t", "e",
          "s", "i", "a", "n", " ", "a", "x", "e", "s">>,
     diagonalizing |->
        <<"D", "i", "a", "g", "o", "n", "a", "l", "i", "z", "i", "n", "g">>,
     q |-> <<"q", " ", "=", " ">>,
     ynamical |->
        <<"y", "n", "a", "m", "i", "c", "a", "l">>]

\* the literals save_qe writes (lines 675, 691, 696, 724, 726, 748)
Txt ==
    [file |->
        <<"D", "y", "n", "a", "m", "i", "c", "a", "l", " ", "m", "a", "t",
          "r", "i", "x", " ", "f", "i", "l", "e">>,
     generated |->
        <<"F", "i", "l", "e", " ", "g", "e", "n", "e", "r", "a", "t", "e",
          "d", " ", "w", "i", "t", "h", " ", "t", "h", "e", " ", "C", "e",
          "l", "l", "C", "o", "n", "s", "t", "r", "u", "c", "t", "o", "r",
          " ", "b", "y", " ", "L", "o", "r", "e", "n", "z", "o", " ", "M",
          "o", "n", "a", "c", "e", "l", "l", "i">>,
     basis |->
        <<"B", "a", "s", "i", "s", " ", "v", "e", "c", "t", "o", "r", "s">>,
     header |->
        <<"D", "y", "n", "a", "m", "i", "c", "a", "l", " ", "M", "a", "t",
          "r", "i", "x", " ", "i", "n", " ", "c", "a", "r", "t", "e", "s",
          "i", "a", "n", " ", "a", "x", "e", "s">>,
     q |-> <<"q", " ", "=", " ", "(", " ", ")">>,
     diagonalizing |->
        <<"D", "i", "a", "g", "o", "n", "a", "l", "i", "z", "i", "n", "g",
          " ", "t", "h", "e", " ", "d", "y", "n", "a", "m", "i", "c", "a",
          "l", " ", "m", "a", "t", "r", "i", "x">>]

\* "%12.8f" of a value in units of 1e-9, and float() of what was printed
Fmt8(x) == IF x >= 0 THEN (x + 5) \div 10 ELSE -((5 - x) \div 10)

Parse8(t) == 10 * t

\* The structure of a Phonons object is None or a Structure, of which the
\* species of the atoms are kept
PhStructure(atoms) == [kind |-> "Structure", atoms |-> atoms]

NoStructure == [kind |-> "None", atoms |-> <<>>]

\* alat is not kept as a number: base says where the length came from ("one"
\* is the 1 of __init__, "cell" the lattice parameter Quantum ESPRESSO
\* wrote) and trips how many times it went through save_qe, which
\* multiplies by A_TO_BOHR (line 693), and LoadFromQE, which multiplies by
\* BOHR_TO_ANGSTROM (line 149): the product of the two is not 1.
Alat(base, trips) == [base |-> base, trips |-> trips]

\* species in order of first appearance (save_qe, lines 678-682)
TypesOf(atoms) ==
    LET first == {i \in 1..Len(atoms) :
                     \A j \in 1..(i - 1) : atoms[j] # atoms[i]}
        RECURSIVE Collect(_)
        Collect(i) == IF i = 0 THEN <<>>
                      ELSE IF i \in first THEN Append(Collect(i - 1), atoms[i])
                           ELSE Collect(i - 1)
    IN  Collect(Len(atoms))

\* the lines up to the matrices: title lines, "ntyp nat ibrav alat ...",
\* the basis, the species, the atoms
PreambleLines(st, alat) ==
    LET types == TypesOf(st.atoms)
        itau(a) == CHOOSE i \in 1..Len(types) : types[i] = a
    IN  << Line(Txt.file, <<>>),
           Line(Txt.generated, <<>>),
           Line(<<>>, <<Len(types), Len(st.atoms), 0, alat, 0, 0, 0, 0, 0>>),
           Line(Txt.basis, <<>>),
           Line(<<>>, <<1, 0, 0>>),
           Line(<<>>, <<0, 1, 0>>),
           Line(<<>>, <<0, 0, 1>>) >>
        \o [i \in 1..Len(types) |-> Line(<<"'", types[i], " ", "'">>, <<i, 1>>)]
        \o [i \in 1..Len(st.atoms) |->
               Line(<<>>, <<i, itau(st.atoms[i]), 0, 0, 0>>)]

\* lines 731-741: the blocks of one matrix, every entry as real and
\* imaginary part printed with 8 decimals. A matrix is a tuple of rows of
\* <<re, im>> pairs.
RECURSIVE MatrixLines(_, _, _)
MatrixLines(dyn, n_atoms, k) ==
    IF k = 0 THEN <<>>
    ELSE LET i == (k - 1) \div n_atoms
             j == (k - 1) % n_atoms
             row(x) == Line(<<>>,
                 << Fmt8(dyn[3 * i + x][3 * j + 1][1]),
                    Fmt8(dyn[3 * i + x][3 * j + 1][2]),
                    Fmt8(dyn[3 * i + x][3 * j + 2][1]),
                    Fmt8(dyn[3 * i + x][3 * j + 2][2]),
                    Fmt8(dyn[3 * i + x][3 * j + 3][1]),
                    Fmt8(dyn[3 * i + x][3 * j + 3][2]) >>)
         IN  MatrixLines(dyn, n_atoms, k - 1)
             \o << Line(<<>>, <<i + 1, j + 1>>), row(1), row(2), row(3) >>

\* lines 720-744: header, q point and matrix of every member of the star
RECURSIVE StarLines(_, _, _, _, _)
StarLines(header, q_star, dyns, n_atoms, jq) ==
    IF jq = 0 THEN <<>>
    ELSE StarLines(header, q_star, dyns, n_atoms, jq - 1)
         \o << Line(<<>>, <<>>), Line(header, <<>>), Line(<<>>, <<>>),
                Line(Txt.q, q_star[jq]), Line(<<>>, <<>>) >>
         \o MatrixLines(dyns[jq], n_atoms, n_atoms * n_atoms)

\* one file: the matrices dyns of the star q_star, under the given header.
\* It ends with the head of the diagonalization block (lines 746-752); the
\* frequencies and polarization vectors after it are never read back.
FileOf(header, st, alat, q_star, dyns) ==
    PreambleLines(st, alat)
    \o StarLines(header, q_star, dyns, Len(st.atoms), Len(q_star))
    \o << Line(<<>>, <<>>), Line(Txt.diagonalizing, <<>>), Line(<<>>, <<>>),
          Line(Txt.q, q_star[1]), Line(<<>>, <<>>) >>

\* A path is a tuple: the prefix, followed by the number appended to it
Path(prefix, iq, full_name) == IF full_name THEN prefix ELSE Append(prefix, iq)

\* What Quantum ESPRESSO left on disk: the prefix "dyn" with two stars, the
\* zero vector alone in dyn1 and two points in dyn2, and the file "gamma"
\* that is read with full_name, all with the header LoadFromQE looks
\* for. The structure has one atom; DynOf is a 3x3
\* matrix with <<re, im>> everywhere but at (1,1); q is in units of 1e-9.
FilesOnDisk ==
    LET DynOf(re, im) ==
            [r \in 1..3 |-> [c \in 1..3 |->
                IF r = 1 /\ c = 1 THEN <<re + 1000, 0>> ELSE <<re, im>>]]
        GammaStar == << <<0, 0, 0>> >>
        XStar     == << <<500000000, 0, 0>>, <<0, 500000000, 0>> >>
        OneAtom   == PhStructure(<<"A">>)
        CellAlat  == Alat("cell", 0)
    IN  (<<"dyn", 1>> :> FileOf(Pat.header, OneAtom, CellAlat,
                                GammaStar, << DynOf(12000000, 0) >>))
        @@ (<<"dyn", 2>> :> FileOf(Pat.header, OneAtom, CellAlat, XStar,
                                   << DynOf(7000000, 3000000),
                                      DynOf(-7000000, 10) >>))
        @@ (<<"gamma">> :> FileOf(Pat.header, OneAtom, CellAlat,
                                  GammaStar, << DynOf(12000000, 0) >>))

NoObjects == [n \in {} |-> 0]

\* SymmetrizeFCQ was never called
NoSymFCQ ==
    [q_stars |-> <<>>, q_points |-> <<>>, asr |-> "", iq |-> 0, i |-> 0,
     q0_index |-> 0, fcq |-> <<>>, log |-> <<>>]

\* ------------------------------------------------------------------------
\* Initial state: QE_Symmetry(structure)
\* ------------------------------------------------------------------------

\* The default of the threshold parameter of __init__: 1e-5
threshold_default == 1

\* QE_Symmetry(st): the fields and the locals of the object just built
InitFor(st) ==
    /\ structure = st
    /\ symph = [q \in QPoints |-> Discover(st, q)]
    /\ threshold = threshold_default
    /\ accep = threshold_default
    /\ LET T == NewTable(structure)
       IN  /\ QE_s = T.QE_s
           /\ QE_ft = T.QE_ft
           /\ QE_irt = T.QE_irt
           /\ QE_invs = T.QE_invs
           /\ QE_rtau = T.QE_rtau
           /\ QE_minus_q = T.QE_minus_q
           /\ QE_irotmq = T.QE_irotmq
           /\ QE_nsymq = T.QE_nsymq
           /\ QE_nsym = T.QE_nsym
    /\ QE_minusq = "unset"
    /\ pc = "idle"
    /\ q_tot = <<>>
    /\ q_list = <<>>
    /\ q_stars = <<>>
    /\ q_indices = <<>>
    /\ count_q = 0
    /\ q_point_group = <<>>
    /\ fcq = <<>>
    /\ final_fc = <<>>
    /\ star_i = 0
    /\ out = NoOut
    /\ call = NoCall
    /\ symph_call = NoSymphCall
    /\ files = FilesOnDisk
    /\ objs = NoObjects
    /\ mem = <<>>
    /\ symfcq = NoSymFCQ

Init == \E st \in Structures : InitFor(st)

\* The caller takes the results of the finished call and goes on
Resume ==
    /\ pc = "done"
    /\ pc' = "idle"
    /\ call' = NoCall
    /\ symph_call' = NoSymphCall
    /\ q_tot' = <<>>
    /\ q_list' = <<>>
    /\ q_stars' = <<>>
    /\ q_indices' = <<>>
    /\ count_q' = 0
    /\ q_point_group' = <<>>
    /\ fcq' = <<>>
    /\ final_fc' = <<>>
    /\ star_i' = 0
    /\ out' = NoOut
    /\ UNCHANGED <<symfcq, phononVars, configVars, tableVars>>

\* ------------------------------------------------------------------------
\* SetupQPoint
\* ------------------------------------------------------------------------

\* A SetupQPoint that zeroes the table before it rejects the argument
SetupQPointMut(q_point) ==
    /\ pc = "idle"
    /\ pc' = "done"
    /\ IF Len(q_point) # 3
       THEN /\ call' = CallRec("SetupQPoint", q_point, "InvalidQPoint")
            /\ SetTable(NewTable(structure))
            /\ UNCHANGED <<symfcq, phononVars, configVars, starVars, applyVars, out, symph_call>>
       ELSE /\ SetTable(SetupQPointTable(Table, q_point))
            /\ call' = CallRec("SetupQPoint", q_point, "none")
            /\ UNCHANGED <<symfcq, phononVars, configVars, starVars, applyVars, out, symph_call>>

SetupQPoint(q_point) ==
    /\ pc = "idle"
    /\ pc' = "done"
    /\ IF Len(q_point) # 3
       THEN /\ call' = CallRec("SetupQPoint", q_point, "InvalidQPoint")
            /\ UNCHANGED <<symfcq, phononVars, configVars, tableVars, starVars, applyVars, out, symph_call>>
       ELSE /\ SetTable(SetupQPointTable(Table, q_point))
            /\ call' = CallRec("SetupQPoint", q_point, "none")
            /\ UNCHANGED <<symfcq, phononVars, configVars, starVars, applyVars, out, symph_call>>

\* ------------------------------------------------------------------------
\* SetupQStar
\* ------------------------------------------------------------------------

\* symph.star_q(q, at, bg, nsymq, s, invs, 0): the images of q by the first
\* nsymq operations, each kept once modulo the reciprocal lattice, in the
\* order the operations produce them
RECURSIVE StarFrom(_, _, _, _)
StarFrom(T, q, isym, sxq) ==
    IF isym > T.QE_nsymq THEN sxq
    ELSE LET raq == MatVec(T.QE_s[T.QE_invs[isym]], covariant_coordinates(q))
         IN  IF \E iq \in 1..Len(sxq) : EqVect(raq, sxq[iq])
             THEN StarFrom(T, q, isym + 1, sxq)
             ELSE StarFrom(T, q, isym + 1, Append(sxq, raq))

star_q(T, q) == StarFrom(T, q, 1, <<>>)

\* np.argmin of a non-empty list: the first position (from 1) of the minimum
ArgMin(d) == CHOOSE i \in 1..Len(d) : /\ \A j \in 1..Len(d) : d[i] <= d[j]
                                      /\ \A j \in 1..(i - 1) : d[j] > d[i]

\* A pop that leaves the list as it is
PopMut(list, index) == list

\* list.pop(index), index from 1
Pop(list, index) ==
    [k \in 1..(Len(list) - 1) |-> IF k < index THEN list[k] ELSE list[k + 1]]

\* q_dist = [get_min_dist_into_cell(bg, v, q_point) for q_point in list]
QDist(v, list) == [k \in 1..Len(list) |-> get_min_dist_into_cell(v, list[k])]

\* The loop of SetupQStar with the position in the remaining list written to
\* the index array in place of the position in the list handed in
RECURSIVE PopStarMut(_, _, _, _)
PopStarMut(sxq, jq, tot, fr) ==
    IF jq > Len(sxq) \/ fr.err # "none" THEN fr
    ELSE IF Len(fr.q_list) = 0
         THEN [fr EXCEPT !.err = "ArgminOfEmptyList"]
         ELSE LET pop_index == ArgMin(QDist(sxq[jq], fr.q_list))
              IN  IF fr.count_q >= Len(fr.q_indices)
                  THEN [fr EXCEPT !.q_list = Pop(fr.q_list, pop_index),
                                  !.err = "IndexError"]
                  ELSE PopStarMut(sxq, jq + 1, tot,
                           [fr EXCEPT !.q_list = Pop(fr.q_list, pop_index),
                                      !.q_indices[fr.count_q + 1] = pop_index - 1,
                                      !.count_q = fr.count_q + 1])

\* The loop "for jq in range(nq_new)" of SetupQStar from jq on: fr holds
\* q_list, q_indices, count_q and err, the exception that stopped the loop
RECURSIVE PopStar(_, _, _, _)
PopStar(sxq, jq, tot, fr) ==
    IF jq > Len(sxq) \/ fr.err # "none" THEN fr
    ELSE IF Len(fr.q_list) = 0
         THEN [fr EXCEPT !.err = "ArgminOfEmptyList"]
         ELSE LET pop_index == ArgMin(QDist(sxq[jq], fr.q_list))
                  q_index   == ArgMin(QDist(sxq[jq], tot))
              IN  IF fr.count_q >= Len(fr.q_indices)
                  THEN [fr EXCEPT !.q_list = Pop(fr.q_list, pop_index),
                                  !.err = "IndexError"]
                  ELSE PopStar(sxq, jq + 1, tot,
                           [fr EXCEPT !.q_list = Pop(fr.q_list, pop_index),
                                      !.q_indices[fr.count_q + 1] = q_index - 1,
                                      !.count_q = fr.count_q + 1])

\* Lines 157-166: the discovery at the default q point and the locals
SetupQStarBegin(q_tot_arg) ==
    /\ pc = "idle"
    /\ pc' = "SetupQStar"
    /\ SetTable(SetupQPointTable(Table, q_point_default))
    /\ call' = CallRec("SetupQStar", <<>>, "running")
    /\ q_tot' = q_tot_arg
    /\ q_list' = q_tot_arg
    /\ q_stars' = <<>>
    /\ q_indices' = [k \in 1..Len(q_tot_arg) |-> 0]
    /\ count_q' = 0
    /\ UNCHANGED <<symfcq, phononVars, configVars, applyVars, out, symph_call>>

\* Lines 167-205: one pass of "while len(q_list) > 0"
SetupQStarIter ==
    /\ pc = "SetupQStar"
    /\ Len(q_list) > 0
    /\ LET sxq == star_q(Table, q_list[1])
           fr  == PopStar(sxq, 1, q_tot,
                          [q_list |-> q_list, q_indices |-> q_indices,
                           count_q |-> count_q, err |-> "none"])
       IN  /\ symph_call' = [name |-> "star_q", nsymq |-> QE_nsymq,
                             s |-> SubSeq(QE_s, 1, QE_nsymq)]
           /\ q_stars' = Append(q_stars, sxq)
           /\ q_list' = fr.q_list
           /\ q_indices' = fr.q_indices
           /\ count_q' = fr.count_q
           /\ IF fr.err = "none"
              THEN UNCHANGED <<pc, call>>
              ELSE /\ pc' = "done"
                   /\ call' = [call EXCEPT !.err = fr.err]
    /\ UNCHANGED <<symfcq, phononVars, configVars, tableVars, q_tot, applyVars, out>>

\* Line 208: return q_stars, q_indices
SetupQStarReturn ==
    /\ pc = "SetupQStar"
    /\ Len(q_list) = 0
    /\ pc' = "done"
    /\ call' = [call EXCEPT !.err = "none"]
    /\ UNCHANGED <<symfcq, phononVars, configVars, tableVars, starVars, applyVars, out, symph_call>>

\* ------------------------------------------------------------------------
\* ApplyQStar
\* ------------------------------------------------------------------------

StarLists == UNION { [1..n -> StarPoints] : n \in 0..MaxStar }

\* A matrix is kept as the list of the terms summed into it and a divisor.
\* The term <<i, 0>> is the i-th matrix the caller handed in; <<i, y>> with
\* y > 0 is dyn_star[y] of q2qstar_out for that matrix: its image at the
\* y-th member of the star computed for the i-th q point.
InputMatrix(i) == [terms |-> << <<i, 0>> >>, div |-> 1]

\* The star members within tolerance of the q point v
StarMatches(sxq, v) ==
    {yq \in 1..Len(sxq) : get_min_dist_into_cell(sxq[yq], v) = 0}

\* A sorting_q left as arange(nq)
SortingQMut(sxq, group) == [xq \in 1..Len(group) |-> xq]

\* Lines 291-297: sorting_q starts as arange(nq); the entry of xq becomes
\* the last star member that matches it (entries are kept from 1 here)
SortingQ(sxq, group) ==
    [xq \in 1..Len(group) |->
        LET m == StarMatches(sxq, group[xq])
        IN  IF m = {} THEN xq ELSE CHOOSE yq \in m : \A o \in m : o <= yq]

\* Lines 226-234: the discovery at the default q point and the locals
ApplyQStarBegin(group) ==
    /\ pc = "idle"
    /\ pc' = "ApplyQStar"
    /\ SetTable(SetupQPointTable(Table, q_point_default))
    /\ call' = CallRec("ApplyQStar", <<>>, "running")
    /\ q_point_group' = group
    /\ fcq' = [x \in 1..Len(group) |-> InputMatrix(x)]
    /\ final_fc' = [x \in 1..Len(group) |-> <<>>]
    /\ star_i' = 0
    /\ UNCHANGED <<symfcq, phononVars, configVars, starVars, out, symph_call>>

\* A pass that goes on to the matching without comparing the star sizes
ApplyQStarIterMut ==
    /\ pc = "ApplyQStar"
    /\ star_i < Len(q_point_group)
    /\ LET nq      == Len(q_point_group)
           i       == star_i + 1
           sxq     == star_q(Table, q_point_group[i])
           sorting == SortingQ(sxq, q_point_group)
           bad     == {xq \in 1..nq :
                          Cardinality(StarMatches(sxq, q_point_group[xq])) # 1}
       IN  /\ symph_call' = [name |-> "q2qstar_out", nsymq |-> QE_nsymq,
                             s |-> SubSeq(QE_s, 1, QE_nsymq)]
           /\ IF bad # {}
              THEN /\ pc' = "done"
                   /\ call' = [call EXCEPT !.err = "AmbiguousStarMatch"]
                   /\ UNCHANGED <<final_fc, star_i>>
              ELSE /\ final_fc' = [xq \in 1..nq |->
                           Append(final_fc[xq], <<i, sorting[xq]>>)]
                   /\ star_i' = i
                   /\ UNCHANGED <<pc, call>>
    /\ UNCHANGED <<symfcq, phononVars, configVars, tableVars, starVars, q_point_group, fcq, out>>

\* A pass that rejects only the members matched more than once
ApplyQStarIterLax ==
    /\ pc = "ApplyQStar"
    /\ star_i < Len(q_point_group)
    /\ LET nq      == Len(q_point_group)
           i       == star_i + 1
           sxq     == star_q(Table, q_point_group[i])
           sorting == SortingQ(sxq, q_point_group)
           bad     == {xq \in 1..nq :
                          Cardinality(StarMatches(sxq, q_point_group[xq])) > 1}
       IN  IF Len(sxq) # nq
           THEN /\ pc' = "done"
                /\ call' = [call EXCEPT !.err = "StarSizeMismatch"]
                /\ symph_call' = [name |-> "star_q", nsymq |-> QE_nsymq,
                                  s |-> SubSeq(QE_s, 1, QE_nsymq)]
                /\ UNCHANGED <<final_fc, star_i>>
           ELSE /\ symph_call' = [name |-> "q2qstar_out", nsymq |-> QE_nsymq,
                                  s |-> SubSeq(QE_s, 1, QE_nsymq)]
                /\ IF bad # {}
                   THEN /\ pc' = "done"
                        /\ call' = [call EXCEPT !.err = "AmbiguousStarMatch"]
                        /\ UNCHANGED <<final_fc, star_i>>
                   ELSE /\ final_fc' = [xq \in 1..nq |->
                                Append(final_fc[xq], <<i, sorting[xq]>>)]
                        /\ star_i' = i
                        /\ UNCHANGED <<pc, call>>
    /\ UNCHANGED <<symfcq, phononVars, configVars, tableVars, starVars, q_point_group, fcq, out>>

\* A pass that sums the images into fcq itself
ApplyQStarIterInPlace ==
    /\ pc = "ApplyQStar"
    /\ star_i < Len(q_point_group)
    /\ LET nq      == Len(q_point_group)
           i       == star_i + 1
           sxq     == star_q(Table, q_point_group[i])
           sorting == SortingQ(sxq, q_point_group)
           bad     == {xq \in 1..nq :
                          Cardinality(StarMatches(sxq, q_point_group[xq])) # 1}
       IN  IF Len(sxq) # nq
           THEN /\ pc' = "done"
                /\ call' = [call EXCEPT !.err = "StarSizeMismatch"]
                /\ symph_call' = [name |-> "star_q", nsymq |-> QE_nsymq,
                                  s |-> SubSeq(QE_s, 1, QE_nsymq)]
                /\ UNCHANGED <<final_fc, star_i, fcq>>
           ELSE /\ symph_call' = [name |-> "q2qstar_out", nsymq |-> QE_nsymq,
                                  s |-> SubSeq(QE_s, 1, QE_nsymq)]
                /\ IF bad # {}
                   THEN /\ pc' = "done"
                        /\ call' = [call EXCEPT !.err = "AmbiguousStarMatch"]
                        /\ UNCHANGED <<final_fc, star_i, fcq>>
                   ELSE /\ final_fc' = [xq \in 1..nq |->
                                Append(final_fc[xq], <<i, sorting[xq]>>)]
                        /\ fcq' = [xq \in 1..nq |->
                                [terms |-> final_fc'[xq], div |-> 1]]
                        /\ star_i' = i
                        /\ UNCHANGED <<pc, call>>
    /\ UNCHANGED <<symfcq, phononVars, configVars, tableVars, starVars, q_point_group, out>>

\* Lines 237-322: one pass of "for i in range(nq)"
ApplyQStarIter ==
    /\ pc = "ApplyQStar"
    /\ star_i < Len(q_point_group)
    /\ LET nq      == Len(q_point_group)
           i       == star_i + 1
           sxq     == star_q(Table, q_point_group[i])
           sorting == SortingQ(sxq, q_point_group)
           bad     == {xq \in 1..nq :
                          Cardinality(StarMatches(sxq, q_point_group[xq])) # 1}
       IN  IF Len(sxq) # nq
           THEN /\ pc' = "done"
                /\ call' = [call EXCEPT !.err = "StarSizeMismatch"]
                /\ symph_call' = [name |-> "star_q", nsymq |-> QE_nsymq,
                                  s |-> SubSeq(QE_s, 1, QE_nsymq)]
                /\ UNCHANGED <<final_fc, star_i>>
           ELSE /\ symph_call' = [name |-> "q2qstar_out", nsymq |-> QE_nsymq,
                                  s |-> SubSeq(QE_s, 1, QE_nsymq)]
                /\ IF bad # {}
                   THEN /\ pc' = "done"
                        /\ call' = [call EXCEPT !.err = "AmbiguousStarMatch"]
                        /\ UNCHANGED <<final_fc, star_i>>
                   ELSE /\ final_fc' = [xq \in 1..nq |->
                                Append(final_fc[xq], <<i, sorting[xq]>>)]
                        /\ star_i' = i
                        /\ UNCHANGED <<pc, call>>
    /\ UNCHANGED <<symfcq, phononVars, configVars, tableVars, starVars, q_point_group, fcq, out>>

\* Lines 326-329: final_fc /= nq; fcq[:,:,:] = final_fc
ApplyQStarEnd ==
    /\ pc = "ApplyQStar"
    /\ star_i = Len(q_point_group)
    /\ pc' = "done"
    /\ call' = [call EXCEPT !.err = "none"]
    /\ fcq' = [xq \in 1..Len(q_point_group) |->
                  [terms |-> final_fc[xq], div |-> Len(q_point_group)]]
    /\ UNCHANGED <<symfcq, phononVars, configVars, tableVars, starVars, q_point_group, final_fc,
                   star_i, out, symph_call>>

\* ------------------------------------------------------------------------
\* ApplySymmetryToMatrix
\* ------------------------------------------------------------------------

RECURSIVE MatSumUpTo(_, _, _)
MatSumUpTo(T, m, n) ==
    IF n = 0 THEN ZeroMat3
    ELSE LET a == MatSumUpTo(T, m, n - 1)
             b == MatMul(MatMul(T.QE_s[n], m), Transpose(T.QE_s[n]))
         IN  [i \in 1..3 |-> [j \in 1..3 |-> a[i][j] + b[i][j]]]

\* symph.symmatrix(mat, s, nsymq, at, bg): the average of the images of mat
\* by the first nsymq rotations, kept as their sum and the divisor nsymq
symmatrix(T, m) == [sum |-> MatSumUpTo(T, m, T.QE_nsymq), div |-> T.QE_nsymq]

UnitTensor(i, j) ==
    [a \in 1..3 |-> [b \in 1..3 |-> IF a = i /\ b = j THEN 1 ELSE 0]]

\* A mask that selects every element
MaskMut(T, i, j) == (1..3) \X (1..3)

\* mask = (np.abs(work) > eps) for work the symmetrized unit tensor (i, j)
Mask(T, i, j) ==
    LET work == symmatrix(T, UnitTensor(i, j)).sum
    IN  {ab \in (1..3) \X (1..3) : work[ab[1]][ab[2]] # 0}

RECURSIVE SumSquares(_, _)
SumSquares(e, cells) ==
    IF cells = {} THEN 0
    ELSE LET c == CHOOSE x \in cells : TRUE
         IN  e[c[1]][c[2]] * e[c[1]][c[2]] + SumSquares(e, cells \ {c})

\* Lines 354-370: an entry of err_new is sqrt(sumsq) / n, zero when n = 0;
\* every entry is computed from err as handed in
ErrNew(T, e) ==
    [i \in 1..3 |-> [j \in 1..3 |->
        LET mask == Mask(T, i, j)
        IN  IF Cardinality(mask) = 0
            THEN [sumsq |-> 0, n |-> 1]
            ELSE [sumsq |-> SumSquares(e, mask), n |-> Cardinality(mask)]]]

\* tensors and error tensors handed to ApplySymmetryToMatrix
Tensors == { << <<1, 0, 0>>, <<0, 2, 0>>, <<0, 0, 3>> >>,
             << <<0, 1, 0>>, <<0, 0, 0>>, <<0, 0, 0>> >>,
             << <<1, 2, 3>>, <<4, 5, 6>>, <<7, 8, 9>> >> }

ErrTensors == { << <<1, 1, 1>>, <<1, 1, 1>>, <<1, 1, 1>> >>,
                << <<1, 2, 3>>, <<2, 1, 2>>, <<3, 2, 1>> >> }

\* err = None
None == <<>>

ApplySymmetryToMatrix(m, e) ==
    /\ pc = "idle"
    /\ pc' = "done"
    /\ LET T == SetupQPointTable(Table, q_point_default)
       IN  /\ SetTable(T)
           /\ symph_call' = [name |-> "symmatrix", nsymq |-> T.QE_nsymq,
                             s |-> SubSeq(T.QE_s, 1, T.QE_nsymq)]
           /\ out' = [kind |-> "tensor", matrix |-> symmatrix(T, m),
                      err |-> IF e = None THEN None ELSE ErrNew(T, e)]
    /\ call' = CallRec("ApplySymmetryToMatrix", <<m, e>>, "none")
    /\ UNCHANGED <<symfcq, phononVars, configVars, starVars, applyVars>>

\* ------------------------------------------------------------------------
\* ForceSymmetry, SymmetrizeVector, SymmetrizeDynQ
\* ------------------------------------------------------------------------

\* Lines 120-126: every operation adds s.coords[i] + ft to the image atom of
\* atom i; the sums are kept with the divisor QE_nsymq
RECURSIVE ForcedSum(_, _, _, _)
ForcedSum(T, coords, s_i, i) ==
    IF s_i = 0 THEN [a \in 1..Len(coords) |-> Zero3]
    ELSE LET prev == IF i = 1 THEN ForcedSum(T, coords, s_i - 1, Len(coords))
                     ELSE ForcedSum(T, coords, s_i, i - 1)
             image == T.QE_irt[s_i][i]
         IN  [prev EXCEPT ![image] =
                 VecAdd(VecAdd(prev[image], MatVec(T.QE_s[s_i], coords[i])),
                        T.QE_ft[s_i])]

\* ForceSymmetry(structure) with the structure of the table as argument
ForceSymmetry ==
    /\ pc = "idle"
    /\ pc' = "done"
    /\ IF QE_nsymq = 0
       THEN /\ call' = CallRec("ForceSymmetry", <<>>, "NotInitialized")
            /\ UNCHANGED out
       ELSE /\ call' = CallRec("ForceSymmetry", <<>>, "none")
            /\ out' = [kind |-> "coords",
                       sum |-> ForcedSum(Table, structure.coords, QE_nsymq,
                                         N_atoms(structure)),
                       div |-> QE_nsymq]
    /\ UNCHANGED <<symfcq, phononVars, configVars, tableVars, starVars, applyVars, symph_call>>

\* SymmetrizeVector(vector): the vector is overwritten with what
\* symph.symvector returns for it and the table as it is
SymmetrizeVector ==
    /\ pc = "idle"
    /\ pc' = "done"
    /\ symph_call' = [name |-> "symvector", nsymq |-> QE_nsymq,
                      s |-> SubSeq(QE_s, 1, QE_nsymq)]
    /\ out' = [kind |-> "vector", nsymq |-> QE_nsymq,
               irt |-> SubSeq(QE_irt, 1, QE_nsymq)]
    /\ call' = CallRec("SymmetrizeVector", <<>>, "none")
    /\ UNCHANGED <<symfcq, phononVars, configVars, tableVars, starVars, applyVars>>

\* SymmetrizeDynQ(dyn_matrix, q_point): the matrix is overwritten with what
\* symph.symdynph_gq_new returns for it, q_point and the table as it is
SymmetrizeDynQ(q_point) ==
    /\ pc = "idle"
    /\ pc' = "done"
    /\ symph_call' = [name |-> "symdynph_gq_new", nsymq |-> QE_nsymq,
                      s |-> SubSeq(QE_s, 1, QE_nsymq)]
    /\ out' = [kind |-> "dyn", xq |-> q_point, nsymq |-> QE_nsymq,
               irotmq |-> QE_irotmq, minus_q |-> QE_minus_q]
    /\ call' = CallRec("SymmetrizeDynQ", q_point, "none")
    /\ UNCHANGED <<symfcq, phononVars, configVars, tableVars, starVars, applyVars>>

\* ------------------------------------------------------------------------
\* Specification
\* ------------------------------------------------------------------------

Next ==
    \/ \E q \in QPoints \cup BadQPoints : SetupQPoint(q)
    \/ \E l \in QLists : SetupQStarBegin(l)
    \/ SetupQStarIter
    \/ SetupQStarReturn
    \/ \E g \in StarLists : ApplyQStarBegin(g)
    \/ ApplyQStarIter
    \/ ApplyQStarEnd
    \/ \E m \in Tensors : \E e \in ErrTensors \cup {None} :
          ApplySymmetryToMatrix(m, e)
    \/ ForceSymmetry
    \/ SymmetrizeVector
    \/ \E q \in QPoints : SymmetrizeDynQ(q)
    \/ Resume

Spec == Init /\ [][Next]_vars

\* ------------------------------------------------------------------------
\* The table on its own: ChangeThreshold, and the specification of the
\* methods that populate the table
\* ------------------------------------------------------------------------

\* thresholds handed to ChangeThreshold (units of 1e-5): all far below the
\* grid step, so that what the finder answers does not depend on them
Thresholds == {1, 10}

\* A ChangeThreshold that discards what was discovered
ChangeThresholdMut(t) ==
    /\ pc = "idle"
    /\ pc' = "done"
    /\ threshold' = t
    /\ accep' = t
    /\ SetTable(NewTable(structure))
    /\ call' = CallRec("ChangeThreshold", t, "none")
    /\ UNCHANGED <<symfcq, phononVars, structure, symph, starVars, applyVars, out, symph_call>>

\* ChangeThreshold(threshold): the field and the finder's acceptance
\* threshold (symph.symm_base.set_accep_threshold)
ChangeThreshold(t) ==
    /\ pc = "idle"
    /\ pc' = "done"
    /\ threshold' = t
    /\ accep' = t
    /\ call' = CallRec("ChangeThreshold", t, "none")
    /\ UNCHANGED <<symfcq, phononVars, structure, symph, tableVars, starVars, applyVars, out,
                   symph_call>>

TableNext ==
    \/ \E q \in QPoints \cup BadQPoints : SetupQPoint(q)
    \/ \E t \in Thresholds : ChangeThreshold(t)
    \/ Resume

TableSpec == Init /\ [][TableNext]_vars

\* ------------------------------------------------------------------------
\* InitFromSymmetries
\* ------------------------------------------------------------------------

\* Longest list of operations handed to InitFromSymmetries
MaxOps == 2

\* The cubic cell holding two atoms of one species half a cell apart along
\* x: the translation by half a cell is an operation of this crystal
Supercell ==
    [name |-> "supercell", atoms |-> <<"A", "A">>,
     coords |-> << <<0, 0, 0>>, <<2, 0, 0>> >>]

TableStructures == Structures \cup {Supercell}

\* Operations in the CellConstructor format (3x4 blocks: rot the first three
\* columns, tr the last): the identity, the translation by half a cell along
\* x, the quarter turns about z, the inversion
SymOps ==
    { [rot |-> Identity3, tr |-> Zero3],
      [rot |-> Identity3, tr |-> <<2, 0, 0>>],
      [rot |-> << <<0, -1, 0>>, <<1, 0, 0>>, <<0, 0, 1>> >>, tr |-> Zero3],
      [rot |-> << <<0, 1, 0>>, <<-1, 0, 0>>, <<0, 0, 1>> >>, tr |-> Zero3],
      [rot |-> << <<-1, 0, 0>>, <<0, -1, 0>>, <<0, 0, -1>> >>, tr |-> Zero3] }

\* the ones that are operations of the crystal st
SymOpsOf(st) == {o \in SymOps : IsSymmetry(st, Transpose(o.rot), o.tr)}

SymLists(st) == UNION { [1..n -> SymOpsOf(st)] : n \in 0..MaxOps }

\* q points handed to InitFromSymmetries
InitQPoints == { <<0, 0, 0>>, <<0, 0, 1>> }

\* np.linalg.inv of a rotation of the lattice
linalg_inv(m) ==
    CHOOSE r \in {set_sym_bl[k] : k \in 1..nrot} : MatMul(m, r) = Identity3

\* "for k, other_sym in enumerate(symmetries): if <inverse>: break" followed
\* by "QE_invs[i] = k + 1": the first operation whose rotation is the inverse,
\* and the last operation of the list when the loop ends without a break
InvsOf(symmetries, i) ==
    LET inv_sym == linalg_inv(symmetries[i].rot)
        hit == {k \in 1..Len(symmetries) : symmetries[k].rot = inv_sym}
    IN  IF hit = {} THEN Len(symmetries)
        ELSE CHOOSE k \in hit : \A o \in hit : k <= o

\* structure.copy(), apply_symmetry(sym, delete_original = True) and
\* fix_coords_in_unit_cell(): the images of the atoms, brought into the cell
aux_atoms(st, sym) ==
    [k \in 1..N_atoms(st) |->
        FixVecInBZ(VecAdd(MatVec(sym.rot, st.coords[k]), sym.tr))]

\* structure.get_equivalent_atoms(aux_atoms) + 1: the atom of the structure
\* the image of every atom falls on
eq_atoms(st, sym) == IrtOf(st, Transpose(sym.rot), sym.tr)

\* Methods.put_into_cell(b_vectors, v): v brought into the cell
put_into_cell(v) == <<v[1] % 4, v[2] % 4, v[3] % 4>>

\* "for k, sym in enumerate(self.QE_s)": QE_s has shape (3, 3, 48), the loop
\* runs over its first axis
MinusQScan == 1..3

\* InitFromSymmetries(symmetries, q_point) on the table T: the table it
\* leaves. The rows past the list, QE_ft and QE_nsym are not assigned;
\* QE_minus_q and QE_irotmq are assigned only when the scan finds a row.
InitFromSymmetriesTable(T, st, symmetries, q_point) ==
    LET nsym == Len(symmetries)
        T1 == [T EXCEPT
                 !.QE_nsymq = nsym,
                 !.QE_s    = [i \in 1..nrot |->
                                 IF i <= nsym THEN Transpose(symmetries[i].rot)
                                 ELSE T.QE_s[i]],
                 !.QE_irt  = [i \in 1..nrot |->
                                 IF i <= nsym THEN eq_atoms(st, symmetries[i])
                                 ELSE T.QE_irt[i]],
                 !.QE_invs = [i \in 1..nrot |->
                                 IF i <= nsym THEN InvsOf(symmetries, i)
                                 ELSE T.QE_invs[i]],
                 !.QE_rtau = [i \in 1..nrot |->
                                 IF i <= nsym THEN aux_atoms(st, symmetries[i])
                                 ELSE T.QE_rtau[i]]]
        q   == covariant_coordinates(q_point)
        hit == {k \in MinusQScan :
                   MatVec(T1.QE_s[k], q) = put_into_cell(VecNeg(q_point))}
    IN  IF hit = {} THEN T1
        ELSE [T1 EXCEPT !.QE_minus_q = TRUE,
                        !.QE_irotmq = CHOOSE k \in hit : \A o \in hit : k <= o]

\* The argument of a call of InitFromSymmetries
InitArgs(symmetries, q_point) ==
    [symmetries |-> symmetries, q_point |-> q_point]

InitFromSymmetries(symmetries, q_point) ==
    /\ pc = "idle"
    /\ pc' = "done"
    /\ SetFields(InitFromSymmetriesTable(Table, structure, symmetries, q_point))
    /\ QE_minusq' = FALSE
    /\ call' = CallRec("InitFromSymmetries", InitArgs(symmetries, q_point), "none")
    /\ UNCHANGED <<symfcq, phononVars, configVars, starVars, applyVars, out, symph_call>>

TableInit == \E st \in TableStructures : InitFor(st)

\* The two ways of populating the table, one after the other
InitNext ==
    \/ \E q \in InitQPoints : SetupQPoint(q)
    \/ \E q \in InitQPoints : \E l \in SymLists(structure) :
           InitFromSymmetries(l, q)
    \/ Resume

InitSpec == TableInit /\ [][InitNext]_vars

\* ------------------------------------------------------------------------
\* ImposeSumRule and CustomASR
\* ------------------------------------------------------------------------

\* A matrix is a tuple of rows. A result is kept as the record of an integer
\* array num and a divisor den: the array the method leaves is num / den.
Exact(a) == [num |-> a, den |-> 1]

RECURSIVE SumTo(_, _)
SumTo(f, n) == IF n = 0 THEN 0 ELSE f[n] + SumTo(f, n - 1)

\* ndarray.dot of two square matrices of one size
DotN(a, b) ==
    [r \in 1..Len(a) |-> [c \in 1..Len(a) |->
        SumTo([k \in 1..Len(a) |-> a[r][k] * b[k][c]], Len(a))]]

\* the atom (from 1) and the Cartesian direction (from 1) of row or column r
AtomOf(r) == ((r - 1) \div 3) + 1

DirOf(r) == ((r - 1) % 3) + 1

\* A trans that removes the uniform displacement along x only
TransTimesNatMut(nat) ==
    [r \in 1..(3 * nat) |-> [c \in 1..(3 * nat) |->
        (IF r = c THEN nat ELSE 0)
        - (IF DirOf(r) = 1 /\ DirOf(c) = 1 THEN 1 ELSE 0)]]

\* trans of CustomASR times nat: the identity minus the three outer products
\* of the normalized uniform displacements
TransTimesNat(nat) ==
    [r \in 1..(3 * nat) |-> [c \in 1..(3 * nat) |->
        (IF r = c THEN nat ELSE 0) - (IF DirOf(r) = DirOf(c) THEN 1 ELSE 0)]]

\* np.shape of a matrix
Shape(m) == <<Len(m), IF Len(m) = 0 THEN 0 ELSE Len(m[1])>>

\* CustomASR(fc_matrix): the error raised, or the matrix left in fc_matrix
CustomASR(fc_matrix) ==
    LET shape == Shape(fc_matrix)
        nat   == shape[1] \div 3
    IN  IF shape[1] # shape[2] \/ nat * 3 # shape[1]
        THEN [err |-> "DimensionMismatch", fc |-> Exact(fc_matrix)]
        ELSE [err |-> "none",
              fc  |-> [num |-> DotN(TransTimesNat(nat),
                                    DotN(fc_matrix, TransTimesNat(nat))),
                       den |-> nat * nat]]

\* the modes symph.set_asr knows
QE_asr == {"simple", "crystal", "one-dim", "zero-dim", "no"}

\* symph.set_asr(asr, axis, tau, QE_fc, f_zeu) for the modes handed in here:
\* 'no' changes nothing; 'simple' takes from every diagonal block of the
\* force constants the sum of the blocks of its row and from every effective
\* charge the mean over the atoms; a mode it does not know is an error.
\* fz[na] is f_zeu[:, :, na].
set_asr(asr, nat, fc, fz) ==
    CASE asr \notin QE_asr -> [err |-> "InvalidASRMode"]
      [] asr = "no" ->
            [err |-> "none", fc |-> Exact(fc), f_zeu |-> Exact(fz)]
      [] asr = "simple" ->
            [err |-> "none",
             fc  |-> Exact(
                [r \in 1..(3 * nat) |-> [c \in 1..(3 * nat) |->
                    IF AtomOf(r) = AtomOf(c)
                    THEN fc[r][c]
                         - SumTo([nb \in 1..nat |->
                                     fc[r][3 * (nb - 1) + DirOf(c)]], nat)
                    ELSE fc[r][c]]]),
             f_zeu |->
                [num |-> [na \in 1..nat |-> [i \in 1..3 |-> [j \in 1..3 |->
                             nat * fz[na][i][j]
                             - SumTo([nb \in 1..nat |-> fz[nb][i][j]], nat)]]],
                 den |-> nat]]

\* np.einsum("ijk -> kji", zeu): f_zeu[:, :, na] is the transpose of zeu[na]
einsum_kji(zeu) == [na \in 1..Len(zeu) |-> Transpose(zeu[na])]

\* "zeu[na, :, :] = f_zeu[:, :, na]". einsum hands back a view of zeu when
\* it can, and the assignment then reads the memory it writes: the build
\* either goes through a temporary (zeu[na] ends as f_zeu[:, :, na]) or
\* copies element by element, which leaves the lower or the upper triangle
\* of zeu[na] mirrored onto the other.
Overlaps == {"temporary", "rows first", "columns first"}

CopyBack(f, overlap) ==
    [i \in 1..3 |-> [j \in 1..3 |->
        CASE overlap = "temporary"     -> f[i][j]
          [] overlap = "rows first"    -> IF i <= j THEN f[i][j] ELSE f[j][i]
          [] overlap = "columns first" -> IF i >= j THEN f[i][j] ELSE f[j][i]]]

\* err = None / zeu = None of the callers
NoArray == <<>>

\* force constant matrices of the structure st (3 nat rows and columns) and
\* effective charges (one 3x3 tensor per atom) handed to ImposeSumRule
FcInputs(st) ==
    { [r \in 1..(3 * N_atoms(st)) |-> [c \in 1..(3 * N_atoms(st)) |->
          IF r = c THEN 2 ELSE 0]],
      [r \in 1..(3 * N_atoms(st)) |-> [c \in 1..(3 * N_atoms(st)) |->
          r + c]],
      [r \in 1..(3 * N_atoms(st)) |-> [c \in 1..(3 * N_atoms(st)) |->
          IF r <= c THEN r ELSE 0]] }

ZeuInputs(st) ==
    { NoArray,
      [na \in 1..N_atoms(st) |-> << <<na, 0, 0>>, <<0, na, 0>>, <<0, 0, 1>> >>],
      [na \in 1..N_atoms(st) |-> << <<1, 2 * na, 0>>, <<0, 1, 0>>, <<3, 0, na>> >>] }

\* values of the asr parameter handed in
ASRInputs == {"simple", "no", "custom", "acoustic"}

SumRuleArgs(force_constant, asr, zeu) ==
    [force_constant |-> force_constant, asr |-> asr, zeu |-> zeu]

\* what the caller's arrays hold after the call
SumRuleOut(fc, zeu) == [kind |-> "asr", fc |-> fc, zeu |-> zeu]

\* ImposeSumRule(force_constant, asr, zeu = zeu)
ImposeSumRule(force_constant, asr, zeu, overlap) ==
    /\ pc = "idle"
    /\ pc' = "done"
    /\ LET nat   == N_atoms(structure)
           f_zeu == IF zeu = NoArray
                    THEN [na \in 1..nat |-> ZeroMat3]
                    ELSE einsum_kji(zeu)
           held  == IF zeu = NoArray THEN NoArray ELSE Exact(zeu)
       IN  IF asr # "custom"
           THEN LET r == set_asr(asr, nat, force_constant, f_zeu)
                IN  IF r.err # "none"
                    THEN /\ call' = CallRec("ImposeSumRule",
                                  SumRuleArgs(force_constant, asr, zeu), r.err)
                         /\ out' = SumRuleOut(Exact(force_constant), held)
                    ELSE /\ call' = CallRec("ImposeSumRule",
                                  SumRuleArgs(force_constant, asr, zeu), "none")
                         /\ out' = SumRuleOut(r.fc,
                                  IF zeu = NoArray THEN NoArray
                                  ELSE [num |-> [na \in 1..nat |->
                                           CopyBack(r.f_zeu.num[na], overlap)],
                                        den |-> r.f_zeu.den])
           ELSE LET r == CustomASR(force_constant)
                IN  /\ call' = CallRec("ImposeSumRule",
                              SumRuleArgs(force_constant, asr, zeu), r.err)
                    /\ out' = SumRuleOut(r.fc, held)
    /\ UNCHANGED <<symfcq, phononVars, configVars, tableVars, starVars, applyVars, symph_call>>

\* Largest number of rows or columns of a matrix handed to CustomASR
MaxDim == 6

\* matrices handed to CustomASR: every shape up to MaxDim, three fillings
MatrixInputs ==
    UNION { { [r \in 1..n |-> [c \in 1..m |-> IF r = c THEN 2 ELSE 0]],
              [r \in 1..n |-> [c \in 1..m |-> r + 2 * c]],
              [r \in 1..n |-> [c \in 1..m |-> IF r <= c THEN r * c ELSE 1]] } :
            n \in 1..MaxDim, m \in 1..MaxDim }

\* CustomASR(fc_matrix) called on its own
CustomASRCall(fc_matrix) ==
    /\ pc = "idle"
    /\ pc' = "done"
    /\ LET r == CustomASR(fc_matrix)
       IN  /\ call' = CallRec("CustomASR", fc_matrix, r.err)
           /\ out' = SumRuleOut(r.fc, NoArray)
    /\ UNCHANGED <<symfcq, phononVars, configVars, tableVars, starVars, applyVars, symph_call>>

SumRuleNext ==
    \/ \E fc \in FcInputs(structure) : \E asr \in ASRInputs :
       \E zeu \in ZeuInputs(structure) : \E overlap \in Overlaps :
           ImposeSumRule(fc, asr, zeu, overlap)
    \/ \E fc \in MatrixInputs : CustomASRCall(fc)
    \/ Resume

SumRuleSpec == Init /\ [][SumRuleNext]_vars

\* ------------------------------------------------------------------------
\* Phonons objects (Phonons.__init__, LoadFromQE, Copy, save_qe)
\* ------------------------------------------------------------------------

\* A Phonons object holds its three lists by reference: dynmats, q_tot and
\* q_stars are addresses in mem, the contents of every list ever created.
PhononsObj(dynmats, qtot, qstars, nqirr, alat, initialized, st) ==
    [dynmats |-> dynmats, q_tot |-> qtot, q_stars |-> qstars, nqirr |-> nqirr,
     alat |-> alat, initialized |-> initialized, structure |-> st]

\* lines 55-69: the fields of a new object, its lists allocated after mem
NewPhonons(m, nqirr) ==
    PhononsObj(Len(m) + 1, Len(m) + 2, Len(m) + 3, nqirr, Alat("one", 0),
               FALSE, NoStructure)

\* lines 137-181: the structure and alat of the first file. The species of
\* atom i is that of the type its line names.
ReadStructure(dynlines) ==
    IF Len(dynlines) < 3 \/ Len(dynlines[3].nums) < 4
    THEN [err |-> "IndexError", structure |-> PhStructure(<<>>),
          alat |-> Alat("one", 0)]
    ELSE LET info == dynlines[3].nums
             ntyp == info[1]
             nat  == info[2]
         IN  IF info[3] # 0
             THEN [err |-> "ValueError", structure |-> PhStructure(<<>>),
                   alat |-> Alat("one", 0)]
             ELSE IF Len(dynlines) < 7 + ntyp + nat
             THEN [err |-> "IndexError", structure |-> PhStructure(<<>>),
                   alat |-> info[4]]
             ELSE [err |-> "none",
                   structure |-> PhStructure(
                       [i \in 1..nat |->
                           dynlines[7 + dynlines[7 + ntyp + i].nums[2]].text[2]]),
                   alat |-> info[4]]

\* lines 189-193: the lines left once the line of the header is popped;
\* dynlines[0] of a list that ran empty raises
RECURSIVE PopHeader(_)
PopHeader(dynlines) ==
    IF dynlines = <<>> THEN [err |-> "IndexError", lines |-> <<>>]
    ELSE IF Contains(dynlines[1].text, Pat.header)
         THEN [err |-> "none", lines |-> Tail(dynlines)]
         ELSE PopHeader(Tail(dynlines))

\* lines 226-228: one row of three complex numbers. complex64 keeps 24
\* bits, which below 1/64 resolves more than the 1e-9 of the unit used
\* here: the entries of the model stay below and are stored as parsed.
StoreRow(dyn, row, col, nums) ==
    [dyn EXCEPT ![row] =
        [c \in 1..Len(dyn) |->
            IF c \in (col + 1)..(col + 3)
            THEN << Parse8(nums[2 * (c - col) - 1]), Parse8(nums[2 * (c - col)]) >>
            ELSE dyn[row][c]]]

\* lines 204-231: the loop over the lines that follow the header, from the
\* state s = [q_star, q_tot, dynmats, current_dyn, atm_i, atm_j, coordline];
\* what was appended to q_tot and dynmats stays when a line raises
RECURSIVE ReadDyn(_, _, _)
ReadDyn(dynlines, index, s) ==
    IF index > Len(dynlines) THEN [s EXCEPT !.err = "IndexError"]
    ELSE
    LET line == dynlines[index]
        last == Contains(line.text, Pat.diagonalizing)
        n    == Len(s.current_dyn)
        row  == 3 * s.atm_i + s.coordline + 1
        col  == 3 * s.atm_j
        next ==
            IF Contains(line.text, Pat.q)
            THEN [s EXCEPT !.q_star = Append(@, line.nums),
                           !.q_tot = Append(@, line.nums)]
            ELSE IF Contains(line.text, Pat.ynamical)
            THEN [s EXCEPT !.dynmats = Append(@, s.current_dyn)]
            ELSE IF line.text = <<>> /\ Len(line.nums) = 2
            THEN [s EXCEPT !.atm_i = line.nums[1] - 1,
                           !.atm_j = line.nums[2] - 1,
                           !.coordline = 0]
            ELSE IF line.text = <<>> /\ Len(line.nums) = 6
            THEN IF row \in 1..n /\ col + 3 <= n /\ col >= 0
                 THEN [s EXCEPT !.current_dyn =
                                    StoreRow(@, row, col, line.nums),
                                !.coordline = @ + 1]
                 ELSE [s EXCEPT !.err = "IndexError"]
            ELSE s
    IN  IF next.err # "none" \/ last THEN next
        ELSE ReadDyn(dynlines, index + 1, next)

\* lines 122-234: the files iq..nqirr of one call, from the object o and
\* the memory m. The result is the object and the memory as the call
\* leaves them, also when it raises.
RECURSIVE LoadFiles(_, _, _, _, _, _, _)
LoadFiles(fs, o, m, fildyn_prefix, nqirr, full_name, iq) ==
    IF iq > nqirr THEN [err |-> "none", obj |-> o, mem |-> m]
    ELSE
    LET filepath == Path(fildyn_prefix, iq, full_name)
    IN  IF filepath \notin DOMAIN fs
        THEN [err |-> "ValueError", obj |-> o, mem |-> m]
        ELSE
        LET dynlines == fs[filepath]
            first == IF iq = 1 THEN ReadStructure(dynlines)
                     ELSE [err |-> "none", structure |-> o.structure,
                           alat |-> o.alat]
            o1    == [o EXCEPT !.structure = first.structure,
                               !.alat = first.alat]
            n     == 3 * Len(o1.structure.atoms)
            rest  == PopHeader(dynlines)
            scan  == ReadDyn(rest.lines, 1,
                         [q_star |-> <<>>, q_tot |-> m[o.q_tot],
                          dynmats |-> m[o.dynmats],
                          current_dyn |->
                              [r \in 1..n |-> [c \in 1..n |-> <<0, 0>>]],
                          atm_i |-> 0, atm_j |-> 0, coordline |-> 0,
                          err |-> "none"])
            m1    == [m EXCEPT ![o.q_tot] = scan.q_tot,
                               ![o.dynmats] = scan.dynmats]
        IN  IF first.err # "none"
            THEN [err |-> first.err, obj |-> o1, mem |-> m]
            ELSE IF rest.err # "none"
            THEN [err |-> rest.err, obj |-> o1, mem |-> m]
            ELSE IF scan.err # "none"
            THEN [err |-> scan.err, obj |-> o1, mem |-> m1]
            ELSE LoadFiles(fs, o1,
                           [m1 EXCEPT ![o.q_stars] = Append(@, scan.q_star)],
                           fildyn_prefix, nqirr, full_name, iq + 1)

\* LoadFromQE (lines 92-237) on the object o
LoadFromQEResult(fs, o, m, fildyn_prefix, nqirr, full_name) ==
    IF nqirr <= 0 \/ (full_name /\ nqirr > 1)
    THEN [err |-> "ValueError", obj |-> o, mem |-> m]
    ELSE LET r == LoadFiles(fs, [o EXCEPT !.structure = PhStructure(<<>>)],
                            m, fildyn_prefix, nqirr, full_name, 1)
         IN  IF r.err # "none" THEN r
             ELSE [r EXCEPT !.obj = [r.obj EXCEPT !.initialized = TRUE]]

\* The names the caller binds objects to, and the arguments it passes
Names == {"p", "c"}

Prefixes == { <<"dyn">>, <<"gamma">>, <<"out">> }

NqirrInputs == 0..2

\* the longest q_stars a call of LoadFromQE is given to extend
MaxStars == 2

\* the most times a lattice parameter goes through save_qe and LoadFromQE
MaxTrips == 1

PhononsArgs(name, prefix, nqirr, full_name) ==
    [name |-> name, prefix |-> prefix, nqirr |-> nqirr,
     full_name |-> full_name]

PhononsFrame ==
    UNCHANGED <<configVars, tableVars, starVars, applyVars, symph_call,
                symfcq>>

\* name = Phonons(): none of the branches of lines 72 and 75 is taken
Construct(name, nqirr) ==
    /\ pc = "idle"
    /\ name \notin DOMAIN objs
    /\ pc' = "done"
    /\ objs' = objs @@ (name :> NewPhonons(mem, nqirr))
    /\ mem' = mem \o << <<>>, <<>>, <<>> >>
    /\ call' = CallRec("Phonons", PhononsArgs(name, <<>>, nqirr, FALSE), "none")
    /\ out' = NoOut
    /\ UNCHANGED files
    /\ PhononsFrame

\* name = Phonons(prefix, nqirr, full_name): when LoadFromQE raises, so
\* does the constructor, and no object is bound
ConstructFromQE(name, prefix, nqirr, full_name) ==
    /\ pc = "idle"
    /\ name \notin DOMAIN objs
    /\ pc' = "done"
    /\ LET r == LoadFromQEResult(files, NewPhonons(mem, nqirr),
                                 mem \o << <<>>, <<>>, <<>> >>,
                                 prefix, nqirr, full_name)
       IN  /\ call' = CallRec("Phonons",
                              PhononsArgs(name, prefix, nqirr, full_name), r.err)
           /\ IF r.err = "none"
              THEN objs' = objs @@ (name :> r.obj) /\ mem' = r.mem
              ELSE UNCHANGED <<objs, mem>>
    /\ out' = NoOut
    /\ UNCHANGED files
    /\ PhononsFrame

\* objs[name].LoadFromQE(prefix, nqirr, full_name)
LoadFromQE(name, prefix, nqirr, full_name) ==
    /\ pc = "idle"
    /\ name \in DOMAIN objs
    /\ Len(mem[objs[name].q_stars]) < MaxStars
    /\ pc' = "done"
    /\ LET r == LoadFromQEResult(files, objs[name], mem, prefix, nqirr, full_name)
       IN  /\ call' = CallRec("LoadFromQE",
                              PhononsArgs(name, prefix, nqirr, full_name), r.err)
           /\ objs' = [objs EXCEPT ![name] = r.obj]
           /\ mem' = r.mem
    /\ out' = NoOut
    /\ UNCHANGED files
    /\ PhononsFrame

\* lines 299-309: the fields of the copy, whose dynmats is a new list at
\* address a; Phonons() leaves alat at 1
CopyResult(o, m, a) ==
    PhononsObj(a, o.q_tot, o.q_stars, o.nqirr, Alat("one", 0), o.initialized,
               o.structure)

\* dst = objs[src].Copy(); None has no copy()
Copy(src, dst) ==
    /\ pc = "idle"
    /\ src \in DOMAIN objs
    /\ dst \notin DOMAIN objs
    /\ pc' = "done"
    /\ IF objs[src].structure = NoStructure
       THEN /\ call' = CallRec("Copy", PhononsArgs(dst, <<src>>, 0, FALSE),
                               "AttributeError")
            /\ UNCHANGED <<objs, mem>>
       ELSE /\ call' = CallRec("Copy", PhononsArgs(dst, <<src>>, 0, FALSE),
                               "none")
            /\ objs' = objs @@ (dst :> CopyResult(objs[src], mem, Len(mem) + 1))
            /\ mem' = Append(mem, mem[objs[src].dynmats])
    /\ out' = NoOut
    /\ UNCHANGED files
    /\ PhononsFrame

\* the matrices of the star iq, which follow those of the stars before it
RECURSIVE StarOffset(_, _)
StarOffset(qstars, iq) ==
    IF iq = 1 THEN 0 ELSE StarOffset(qstars, iq - 1) + Len(qstars[iq - 1])

\* lines 667-770: the files of the stars iq..nqirr written into fs; the
\* file that is open when a line raises is left with what reached it
RECURSIVE SaveFiles(_, _, _, _, _, _, _)
SaveFiles(fs, o, m, filename, nqirr, full_name, iq) ==
    IF iq > nqirr THEN {[err |-> "none", files |-> fs]}
    ELSE
    LET fname  == Path(filename, iq, full_name)
        put(c) == [f \in DOMAIN fs \cup {fname} |->
                      IF f = fname THEN c ELSE fs[f]]
        qstars == m[o.q_stars]
        dyns   == m[o.dynmats]
        first  == StarOffset(qstars, iq)
    IN  IF o.structure = NoStructure
        THEN {[err |-> "AttributeError", files |-> put(c)] :
                 c \in {<<>>, << Line(Txt.file, <<>>) >>}}
        ELSE IF iq > Len(qstars)
                \/ first + Len(qstars[iq]) > Len(dyns)
                \/ qstars[iq] = <<>>
        THEN {[err |-> "IndexError", files |-> put(c)] :
                 c \in {<<>>, PreambleLines(o.structure,
                                           Alat(o.alat.base, o.alat.trips + 1))}}
        ELSE SaveFiles(
                 put(FileOf(Txt.header, o.structure,
                            Alat(o.alat.base, o.alat.trips + 1), qstars[iq],
                            [jq \in 1..Len(qstars[iq]) |-> dyns[first + jq]])),
                 o, m, filename, nqirr, full_name, iq + 1)

\* objs[name].save_qe(filename, full_name)
save_qe(name, filename, full_name) ==
    /\ pc = "idle"
    /\ name \in DOMAIN objs
    /\ objs[name].alat.trips < MaxTrips
    /\ pc' = "done"
    /\ \E r \in SaveFiles(files, objs[name], mem, filename,
                          IF full_name THEN 1 ELSE objs[name].nqirr,
                          full_name, 1) :
          /\ files' = r.files
          /\ call' = CallRec("save_qe",
                             PhononsArgs(name, filename, 0, full_name), r.err)
    /\ out' = NoOut
    /\ UNCHANGED <<objs, mem>>
    /\ PhononsFrame

\* What a caller does to an object it holds: objs[name].q_tot.append(q)
\* and objs[name].dynmats[0][0, 0] = v
AppendQ(name) ==
    /\ pc = "idle"
    /\ name \in DOMAIN objs
    /\ Len(mem[objs[name].q_tot]) < MaxStars
    /\ pc' = "done"
    /\ mem' = [mem EXCEPT ![objs[name].q_tot] = Append(@, <<250000000, 0, 0>>)]
    /\ call' = CallRec("q_tot.append", PhononsArgs(name, <<>>, 0, FALSE), "none")
    /\ out' = NoOut
    /\ UNCHANGED <<files, objs>>
    /\ PhononsFrame

SetDynEntry(name) ==
    /\ pc = "idle"
    /\ name \in DOMAIN objs
    /\ mem[objs[name].dynmats] # <<>>
    /\ mem[objs[name].dynmats][1][1][1] # <<12000004, 0>>
    /\ pc' = "done"
    /\ mem' = [mem EXCEPT ![objs[name].dynmats][1][1][1] = <<12000004, 0>>]
    /\ call' = CallRec("dynmats[0][0, 0] =", PhononsArgs(name, <<>>, 0, FALSE),
                       "none")
    /\ out' = NoOut
    /\ UNCHANGED <<files, objs>>
    /\ PhononsFrame

PhononsInit == InitFor(CHOOSE st \in Structures : st.name = "cubic")

PhononsNext ==
    \/ \E nqirr \in NqirrInputs : Construct("p", nqirr)
    \/ \E prefix \in Prefixes : \E nqirr \in NqirrInputs :
       \E full_name \in BOOLEAN :
           ConstructFromQE("p", prefix, nqirr, full_name)
    \/ \E name \in Names : \E prefix \in Prefixes : \E nqirr \in NqirrInputs :
       \E full_name \in BOOLEAN : LoadFromQE(name, prefix, nqirr, full_name)
    \/ \E src \in Names : \E dst \in Names : Copy(src, dst)
    \/ \E name \in Names : AppendQ(name)
    \/ \E name \in Names : SetDynEntry(name)
    \/ Resume

PhononsSpec == PhononsInit /\ [][PhononsNext]_vars

\* Writing the files of one object and reading them back
SaveNext ==
    \/ \E nqirr \in NqirrInputs : Construct("p", nqirr)
    \/ \E prefix \in Prefixes : \E nqirr \in NqirrInputs :
       \E full_name \in BOOLEAN :
           ConstructFromQE("p", prefix, nqirr, full_name)
    \/ \E prefix \in Prefixes : \E nqirr \in NqirrInputs :
       \E full_name \in BOOLEAN : LoadFromQE("p", prefix, nqirr, full_name)
    \/ \E filename \in {<<"out">>} : \E full_name \in BOOLEAN :
           save_qe("p", filename, full_name)
    \/ SetDynEntry("p")
    \/ Resume

SaveSpec == PhononsInit /\ [][SaveNext]_vars

\* ------------------------------------------------------------------------
\* SymmetrizeFCQ
\* ------------------------------------------------------------------------

\* lines 393-398: the q points of the stars, one after the other
RECURSIVE q_points_of(_)
q_points_of(stars) ==
    IF stars = <<>> THEN <<>> ELSE Head(stars) \o q_points_of(Tail(stars))

\* lines 416-422: whether ImposeSumRule is called for the q point q. The
\* test of line 417 is np.sqrt(np.sum(q ** 2)) < __EPSILON__, on
\* components that are multiples of 1/4.
SumRuleAt(asr, q) ==
    CASE asr \in {"simple", "custom"} ->
             q[1] * q[1] + q[2] * q[2] + q[3] * q[3] = 0
      [] asr = "crystal" -> TRUE
      [] OTHER -> FALSE

\* A call SymmetrizeFCQ makes, with the table the call works on (for
\* SetupQPoint, the table it leaves)
Event(ev, index, q, T) == [ev |-> ev, index |-> index, q |-> q, table |-> T]

\* the calls of one pass of the loop of line 404 once the table is T
PassEvents(asr, iq, q, T) ==
    << Event("SetupQPoint", iq, q, T) >>
    \o (IF SumRuleAt(asr, q) THEN << Event("ImposeSumRule", iq, q, T) >>
        ELSE <<>>)
    \o << Event("SymmetrizeDynQ", iq, q, T) >>

\* A pass that symmetrizes with the table the pass found, and discovers
\* the operations of its q point afterwards
PassEventsLate(asr, iq, q, T) ==
    (IF SumRuleAt(asr, q) THEN << Event("ImposeSumRule", iq, q, Table) >>
     ELSE <<>>)
    \o << Event("SymmetrizeDynQ", iq, q, Table),
          Event("SetupQPoint", iq, q, T) >>

\* the matrices are kept as the list of what was applied to each
Applied(fc, from, to, what) ==
    [x \in 1..Len(fc) |->
        IF x \in from..to THEN fc[x] \o what ELSE fc[x]]

\* ApplyQStar (lines 237-322) on the table T: the error of the first pass
\* that fails
RECURSIVE ApplyQStarOutcome(_, _, _)
ApplyQStarOutcome(T, group, i) ==
    IF i > Len(group) THEN "none"
    ELSE LET sxq == star_q(T, group[i])
         IN  IF Len(sxq) # Len(group) THEN "StarSizeMismatch"
             ELSE IF \E xq \in 1..Len(group) :
                        Cardinality(StarMatches(sxq, group[xq])) # 1
             THEN "AmbiguousStarMatch"
             ELSE ApplyQStarOutcome(T, group, i + 1)

\* The arguments: the stars (among them one star without q points, the
\* star of a file that held none), the number of matrices of fcq, asr
FCQStars ==
    { << <<>> >>,
      << << <<0, 0, 0>> >> >>,
      << << <<0, 0, 0>> >>, << <<2, 0, 0>>, <<0, 2, 0>>, <<0, 0, 2>> >> >>,
      << << <<2, 0, 0>>, <<0, 2, 0>> >>, << <<0, 0, 0>> >> >>,
      << << <<0, 0, 2>> >>, << <<4, 0, 0>> >> >> }

\* lines 389-401
SymmetrizeFCQBegin(stars, nfc, asr) ==
    /\ pc = "idle"
    /\ symfcq' = [q_stars |-> stars, q_points |-> q_points_of(stars),
                  asr |-> asr, iq |-> 0, i |-> 0, q0_index |-> 0,
                  fcq |-> [x \in 1..nfc |-> <<>>], log |-> <<>>]
    /\ LET arg == [q_stars |-> stars, nfc |-> nfc, asr |-> asr]
       IN  IF Len(q_points_of(stars)) # nfc
           THEN /\ pc' = "done"
                /\ call' = CallRec("SymmetrizeFCQ", arg, "CountMismatch")
           ELSE /\ pc' = "SymmetrizeFCQ"
                /\ call' = CallRec("SymmetrizeFCQ", arg, "running")
    /\ UNCHANGED <<phononVars, configVars, tableVars, starVars, applyVars, out,
                   symph_call>>

\* A pass that symmetrizes before it discovers
SymmetrizeFCQIterLate ==
    /\ pc = "SymmetrizeFCQ"
    /\ symfcq.iq < Len(symfcq.q_points)
    /\ LET iq == symfcq.iq + 1
           q  == symfcq.q_points[iq]
           T  == SetupQPointTable(Table, q)
       IN  /\ SetTable(T)
           /\ IF symfcq.asr \notin {"simple", "custom", "crystal", "no"}
              THEN /\ pc' = "done"
                   /\ call' = [call EXCEPT !.err = "InvalidASR"]
                   /\ symfcq' = [symfcq EXCEPT
                          !.log = @ \o << Event("SetupQPoint", iq, q, T) >>]
                   /\ UNCHANGED symph_call
              ELSE /\ symfcq' = [symfcq EXCEPT
                          !.iq = iq,
                          !.log = @ \o PassEventsLate(symfcq.asr, iq, q, T),
                          !.fcq = Applied(@, iq, iq,
                                      (IF SumRuleAt(symfcq.asr, q)
                                       THEN <<"ImposeSumRule">> ELSE <<>>)
                                      \o <<"SymmetrizeDynQ">>)]
                   /\ symph_call' = [name |-> "symdynph_gq_new",
                                     nsymq |-> T.QE_nsymq,
                                     s |-> SubSeq(T.QE_s, 1, T.QE_nsymq)]
                   /\ UNCHANGED <<pc, call>>
    /\ UNCHANGED <<phononVars, configVars, starVars, applyVars, out>>

\* lines 404-431: one pass of "for iq in range(nq)"
SymmetrizeFCQIter ==
    /\ pc = "SymmetrizeFCQ"
    /\ symfcq.iq < Len(symfcq.q_points)
    /\ LET iq == symfcq.iq + 1
           q  == symfcq.q_points[iq]
           T  == SetupQPointTable(Table, q)
       IN  /\ SetTable(T)
           /\ IF symfcq.asr \notin {"simple", "custom", "crystal", "no"}
              THEN /\ pc' = "done"
                   /\ call' = [call EXCEPT !.err = "InvalidASR"]
                   /\ symfcq' = [symfcq EXCEPT
                          !.log = @ \o << Event("SetupQPoint", iq, q, T) >>]
                   /\ UNCHANGED symph_call
              ELSE /\ symfcq' = [symfcq EXCEPT
                          !.iq = iq,
                          !.log = @ \o PassEvents(symfcq.asr, iq, q, T),
                          !.fcq = Applied(@, iq, iq,
                                      (IF SumRuleAt(symfcq.asr, q)
                                       THEN <<"ImposeSumRule">> ELSE <<>>)
                                      \o <<"SymmetrizeDynQ">>)]
                   /\ symph_call' = [name |-> "symdynph_gq_new",
                                     nsymq |-> T.QE_nsymq,
                                     s |-> SubSeq(T.QE_s, 1, T.QE_nsymq)]
                   /\ UNCHANGED <<pc, call>>
    /\ UNCHANGED <<phononVars, configVars, starVars, applyVars, out>>

\* lines 439-446: one pass of "for i in range(nqirr)"; ApplyQStar discovers
\* at the default q point (line 230) before it looks at the star
SymmetrizeFCQStar ==
    /\ pc = "SymmetrizeFCQ"
    /\ symfcq.iq = Len(symfcq.q_points)
    /\ symfcq.i < Len(symfcq.q_stars)
    /\ LET i     == symfcq.i + 1
           group == symfcq.q_stars[i]
           q_len == Len(group)
           T     == SetupQPointTable(Table, q_point_default)
           err   == ApplyQStarOutcome(T, group, 1)
           ev    == Event("ApplyQStar", i, group, Table)
       IN  /\ SetTable(T)
           /\ IF err # "none"
              THEN /\ pc' = "done"
                   /\ call' = [call EXCEPT !.err = err]
                   /\ symfcq' = [symfcq EXCEPT !.log = Append(@, ev)]
              ELSE /\ symfcq' = [symfcq EXCEPT
                          !.i = i,
                          !.q0_index = @ + q_len,
                          !.log = Append(@, ev),
                          !.fcq = Applied(@, symfcq.q0_index + 1,
                                          symfcq.q0_index + q_len,
                                          <<"ApplyQStar">>)]
                   /\ IF i = Len(symfcq.q_stars)
                      THEN pc' = "done" /\ call' = [call EXCEPT !.err = "none"]
                      ELSE UNCHANGED <<pc, call>>
    /\ UNCHANGED <<phononVars, configVars, starVars, applyVars, out, symph_call>>

SymFCQNext ==
    \/ \E stars \in FCQStars : \E extra \in 0..1 :
       \E asr \in {"simple", "custom", "crystal", "no", "one-dim", "zero-dim"} :
           SymmetrizeFCQBegin(stars, Len(q_points_of(stars)) + extra, asr)
    \/ SymmetrizeFCQIter
    \/ SymmetrizeFCQStar
    \/ Resume

SymFCQSpec == Init /\ [][SymFCQNext]_vars

\* ------------------------------------------------------------------------
\* Properties of SetupQStar
\* ------------------------------------------------------------------------

Gamma == <<0, 0, 0>>
X1 == <<2, 0, 0>>
X2 == <<0, 2, 0>>
X3 == <<0, 0, 2>>

\* SetupQStar has returned q_stars, q_indices
QStarReturned == pc = "done" /\ call.op = "SetupQStar" /\ call.err = "none"

\* SetupQStar has finished, by returning or by raising
QStarFinished == pc = "done" /\ call.op = "SetupQStar"

\* no two entries of the list are equivalent modulo the reciprocal lattice
NoDuplicates(l) ==
    \A i \in 1..Len(l) : \A j \in 1..Len(l) : i # j => ~EqVect(l[i], l[j])

RECURSIVE Flatten(_)
Flatten(stars) ==
    IF stars = <<>> THEN <<>> ELSE Head(stars) \o Flatten(Tail(stars))

\* the members of the returned stars that match the q point v
Matches(v) ==
    {m \in {<<a, b>> : a \in 1..Len(q_stars), b \in 1..nrot} :
        m[2] <= Len(q_stars[m[1]]) /\ EqVect(q_stars[m[1]][m[2]], v)}

\* C2: when SetupQStar returns for a list without equivalent entries, the
\* sizes of the stars sum to the length of the list and every entry of the
\* list is matched by exactly one member of exactly one star.
C2_PartitionComplete ==
    (QStarReturned /\ NoDuplicates(q_tot)) =>
        /\ Len(Flatten(q_stars)) = Len(q_tot)
        /\ \A i \in 1..Len(q_tot) : Cardinality(Matches(q_tot[i])) = 1

\* C3 as stated: on the cubic structure SetupQStar([(0,0,0), (0.5,0,0)])
\* returns two stars, {(0,0,0)} and one that contains (0.5,0,0), and the
\* index array sends position 0 to the first and position 1 to the second.
C3_TwoPointExample ==
    (QStarFinished /\ structure.name = "cubic" /\ q_tot = <<Gamma, X1>>) =>
        /\ call.err = "none"
        /\ Len(q_stars) = 2
        /\ q_stars[1] = <<Gamma>>
        /\ \E b \in 1..Len(q_stars[2]) : EqVect(q_stars[2][b], X1)
        /\ q_indices = <<0, 1>>

\* C3 as amended: on the cubic structure SetupQStar([(0,0,0), (0.5,0,0)])
\* does not return (the star of (0.5,0,0) has three members, and the second
\* finds the list empty); SetupQStar of the complete list [(0,0,0),
\* (0.5,0,0), (0,0.5,0), (0,0,0.5)] returns two stars, {(0,0,0)} and the
\* three-member star that contains (0.5,0,0), and the index array sends
\* position 0 to the first star and positions 1, 2, 3 to the second.
C3_CompleteListExample ==
    /\ (QStarFinished /\ structure.name = "cubic" /\ q_tot = <<Gamma, X1>>) =>
          /\ call.err = "ArgminOfEmptyList"
          /\ Len(q_stars[2]) = 3
    /\ (QStarFinished /\ structure.name = "cubic"
            /\ q_tot = <<Gamma, X1, X2, X3>>) =>
          /\ call.err = "none"
          /\ Len(q_stars) = 2
          /\ q_stars[1] = <<Gamma>>
          /\ Len(q_stars[2]) = 3
          /\ \E b \in 1..3 : EqVect(q_stars[2][b], X1)
          /\ q_indices[1] = 0
          /\ {q_indices[k] : k \in 2..4} = {1, 2, 3}
          /\ \A k \in 2..4 : EqVect(q_tot[q_indices[k] + 1], q_stars[2][k - 1])

C3_Witness ==
    /\ QStarReturned
    /\ structure.name = "cubic"
    /\ q_tot = <<Gamma, X1, X2, X3>>
    /\ Len(q_stars) = 2

\* every pop of the loop "for jq in range(nq_new)", run on list, removes an
\* entry that is equivalent to the star member it is made for
RECURSIVE AllPopsMatch(_, _, _)
AllPopsMatch(sxq, jq, list) ==
    IF jq > Len(sxq) \/ Len(list) = 0 THEN TRUE
    ELSE LET d == QDist(sxq[jq], list)
         IN  /\ d[ArgMin(d)] = 0
             /\ AllPopsMatch(sxq, jq + 1, Pop(list, ArgMin(d)))

\* C4: a pass of the loop of SetupQStar never removes from the remaining
\* list a q point that is not equivalent, modulo the reciprocal lattice, to
\* the star member it is removed for (a member without a match is an error).
C4_OnlyMatchesRemoved ==
    [][(pc = "SetupQStar" /\ q_stars' # q_stars) =>
          AllPopsMatch(q_stars'[Len(q_stars')], 1, q_list)]_vars

\* C5: SetupQStar of a list with two equivalent entries fails, it does not
\* return a partition.
C5_DuplicatesRejected ==
    (QStarFinished /\ ~NoDuplicates(q_tot)) => call.err # "none"

\* C6: whenever SetupQStar returns, the index array is a permutation of
\* 0..N-1 and its k-th entry is the position in the list of the k-th q point
\* of the stars taken in order.
C6_IndexIsPermutation ==
    QStarReturned =>
        /\ Len(q_indices) = Len(q_tot)
        /\ {q_indices[k] : k \in 1..Len(q_indices)} = 0..(Len(q_tot) - 1)
        /\ \A k \in 1..Len(q_indices) :
              /\ k <= Len(Flatten(q_stars))
              /\ q_indices[k] + 1 \in 1..Len(q_tot)
              /\ EqVect(q_tot[q_indices[k] + 1], Flatten(q_stars)[k])

\* C7: every pass of the loop of SetupQStar starts with the remaining list
\* non-empty and leaves it strictly shorter, whether the pass completes or
\* raises; the method returns only with the list empty; with the list empty
\* the only step is the return; so a call on a list of N q points ends,
\* returning or raising, within N passes.
C7_LoopTerminates ==
    [][pc = "SetupQStar" =>
          /\ pc' \in {"SetupQStar", "done"}
          /\ Len(q_list') <= Len(q_list)
          /\ q_stars' # q_stars =>
                (Len(q_list) > 0 /\ Len(q_list') < Len(q_list))
          /\ Len(q_list) > 0 => q_stars' # q_stars
          /\ (pc' = "done" /\ call'.err = "none") <=> Len(q_list) = 0
          /\ Len(q_stars') <= Len(q_tot)]_vars

C7_Witness ==
    /\ pc = "SetupQStar"
    /\ Len(q_stars) >= 2
    /\ Len(q_list) > 0

\* ------------------------------------------------------------------------
\* Properties of the table
\* ------------------------------------------------------------------------

\* the operations that symmetrize or apply with the table
SymmetrizeOps == {"ForceSymmetry", "SymmetrizeVector", "SymmetrizeDynQ",
                  "ApplySymmetryToMatrix", "ApplyQStar"}

\* C1: on a table no discovery has ever run on, a call of ForceSymmetry,
\* SymmetrizeVector, SymmetrizeDynQ, ApplySymmetryToMatrix or ApplyQStar
\* fails with NotInitialized: it does not compute a result.
C1_UninitializedRejected ==
    [][(pc = "idle" /\ Table = NewTable(structure) /\ pc' # "idle"
            /\ call'.op \in SymmetrizeOps) =>
          (pc' = "done" /\ call'.err = "NotInitialized")]_vars

\* the methods that discover at the default q point before they compute
GammaOps == {"SetupQStar", "ApplyQStar", "ApplySymmetryToMatrix"}

\* the table a discovery at the zero q point leaves on a new table
GammaTable == SetupQPointTable(NewTable(structure), Gamma)

\* the rotations of the first n operations of the table T
Operations(T, n) == {T.QE_s[k] : k \in 1..n}

\* C8: from the first step of SetupQStar, ApplyQStar or ApplySymmetryToMatrix
\* to the end of the call, whatever the table was when the call was made,
\* the table is the one discovered for the zero q point; every call into the
\* symmetry finder is handed its operations, and they are the operations of
\* the whole crystal: the small group of every q point is among them.
C8_GammaOperationSet ==
    (pc # "idle" /\ call.op \in GammaOps) =>
        /\ Table = GammaTable
        /\ symph_call # NoSymphCall =>
              /\ symph_call.nsymq = GammaTable.QE_nsymq
              /\ symph_call.s = SubSeq(GammaTable.QE_s, 1, GammaTable.QE_nsymq)
        /\ \A q \in QPoints :
              Operations(symph[q], symph[q].QE_nsymq)
                  \subseteq Operations(Table, QE_nsymq)

C8_Witness ==
    /\ pc = "done"
    /\ call.op = "ApplySymmetryToMatrix"
    /\ structure.name = "polar"
    /\ symph_call.name = "symmatrix"
    /\ symph_call.nsymq = 8
    /\ QE_minus_q

\* SetupQPoint(q_point) has returned
QPointReturned == pc = "done" /\ call.op = "SetupQPoint" /\ call.err = "none"

\* C9: when SetupQPoint(q') returns, whatever calls came before it, every
\* field of the table, the index of the minus-q operation included, is what
\* SetupQPoint(q') leaves on a new table.
C9_TableDeterminedByLastQ ==
    QPointReturned => Table = SetupQPointTable(NewTable(structure), call.arg)

\* C10: when SetupQPoint(q) returns with the minus-q flag set, QE_irotmq is
\* the index of an operation of the table whose rotation sends q to -q
\* modulo the reciprocal lattice.
C10_IrotmqSendsQToMinusQ ==
    (QPointReturned /\ QE_minus_q) =>
        /\ QE_irotmq \in 1..QE_nsym
        /\ EqVect(MatVec(QE_s[QE_irotmq], covariant_coordinates(call.arg)),
                  VecNeg(covariant_coordinates(call.arg)))

\* C11: a call of SetupQPoint with an argument that does not have three
\* components ends with InvalidQPoint, and every field of the table is
\* after the call what it was before it.
C11_InvalidQPointRejected ==
    [][(pc = "idle" /\ pc' # "idle" /\ call'.op = "SetupQPoint"
            /\ Len(call'.arg) # 3) =>
          /\ pc' = "done"
          /\ call'.err = "InvalidQPoint"
          /\ Table' = Table]_vars

C11_Witness ==
    /\ pc = "done"
    /\ call.op = "SetupQPoint"
    /\ call.err = "InvalidQPoint"
    /\ QE_nsymq > 0
    /\ QE_nsymq < symph[Gamma].QE_nsymq

\* C12: ChangeThreshold(t) sets the stored threshold and the finder's
\* acceptance threshold to t and nothing else: every field of the table
\* keeps the value the last discovery left.
C12_ChangeThresholdFrame ==
    [][(pc = "idle" /\ pc' # "idle" /\ call'.op = "ChangeThreshold") =>
          /\ threshold' = call'.arg
          /\ accep' = call'.arg
          /\ Table' = Table
          /\ UNCHANGED <<symfcq, phononVars, structure, symph, starVars, applyVars, out>>]_vars

C12_Witness ==
    /\ pc = "done"
    /\ call.op = "ChangeThreshold"
    /\ threshold # threshold_default
    /\ QE_nsymq > 0
    /\ ~QE_minus_q

\* ------------------------------------------------------------------------
\* Properties of InitFromSymmetries
\* ------------------------------------------------------------------------

InitFinished == pc = "done" /\ call.op = "InitFromSymmetries"

\* the operations of the list l whose rotation is the inverse of that of l[i]
RotInverses(l, i) ==
    {k \in 1..Len(l) : MatMul(l[i].rot, l[k].rot) = Identity3}

\* C13: InitFromSymmetries fails with MissingInverse when some operation of
\* the list has no operation of the list with the inverse rotation, and on
\* return the recorded inverse of every operation has the inverse rotation.
C13_MissingInverseRaised ==
    InitFinished =>
        LET l == call.arg.symmetries
        IN  IF \E i \in 1..Len(l) : RotInverses(l, i) = {}
            THEN call.err = "MissingInverse"
            ELSE /\ call.err = "none"
                 /\ \A i \in 1..Len(l) : QE_invs[i] \in RotInverses(l, i)

\* the atom map of operation j undoes the atom map of operation i
InversePermutation(i, j) ==
    \A na \in 1..N_atoms(structure) :
        /\ QE_irt[i][na] \in 1..N_atoms(structure)
        /\ QE_irt[j][QE_irt[i][na]] = na

\* the table was populated by the call just returned; for InitFromSymmetries
\* the list held, for every operation, one with the inverse rotation
PopulatedWithInverses ==
    /\ pc = "done"
    /\ call.err = "none"
    /\ \/ call.op = "SetupQPoint"
       \/ /\ call.op = "InitFromSymmetries"
          /\ \A i \in 1..Len(call.arg.symmetries) :
                 RotInverses(call.arg.symmetries, i) # {}

\* C14: for every operation of a populated table the atom map of the
\* recorded inverse is the inverse permutation of the operation's atom map,
\* lists with several operations of one rotation included.
C14_InverseMapsAreInverse ==
    PopulatedWithInverses =>
        \A op \in 1..QE_nsymq :
            /\ QE_invs[op] \in 1..QE_nsymq
            /\ InversePermutation(op, QE_invs[op])

\* the positions of the list l whose operation sends q to -q up to a
\* vector of the reciprocal lattice
MinusQOps(l, q) ==
    {k \in 1..Len(l) : EqVect(MatVec(Transpose(l[k].rot), q), VecNeg(q))}

\* C15: after InitFromSymmetries(ops, q) the minus-q flag is true exactly
\* when some operation of ops, at any position, sends q to -q, and the
\* index is then the position of such an operation; a flag left true by an
\* earlier population is cleared when there is none.
C15_MinusQFromList ==
    (InitFinished /\ call.err = "none") =>
        LET ops == MinusQOps(call.arg.symmetries, call.arg.q_point)
        IN  /\ QE_minus_q = (ops # {})
            /\ ops # {} => QE_irotmq \in ops

\* ------------------------------------------------------------------------
\* Properties of ApplyQStar
\* ------------------------------------------------------------------------

ApplyFinished == pc = "done" /\ call.op = "ApplyQStar"

\* the star the crystal's operations give for the i-th supplied member
RecomputedStar(i) == star_q(Table, q_point_group[i])

SizeOk(i) == Len(RecomputedStar(i)) = Len(q_point_group)

\* the members of the recomputed star within tolerance of the q point v,
\* modulo the reciprocal lattice
Near(sxq, v) == {y \in 1..Len(sxq) : EqVect(sxq[y], v)}

\* every supplied member has exactly one match in the star of member i
MatchOk(i) ==
    \A x \in 1..Len(q_point_group) :
        Cardinality(Near(RecomputedStar(i), q_point_group[x])) = 1

\* C16 as stated: ApplyQStar fails with StarSizeMismatch whenever the star
\* recomputed for some supplied member has a number of members different
\* from the number of supplied members.
C16_AnySizeMismatchReported ==
    ApplyFinished =>
        ((\E i \in 1..Len(q_point_group) : ~SizeOk(i))
            => call.err = "StarSizeMismatch")

\* C16 amended: ApplyQStar fails with StarSizeMismatch when the star
\* recomputed for the first supplied member has a different size; when only
\* the star of a later member has, the call fails all the same, with the
\* AmbiguousStarMatch of an earlier pass.
C16_FirstSizeMismatchReported ==
    ApplyFinished =>
        /\ (Len(q_point_group) > 0 /\ ~SizeOk(1))
              => call.err = "StarSizeMismatch"
        /\ (\E i \in 1..Len(q_point_group) : ~SizeOk(i))
              => call.err \in {"StarSizeMismatch", "AmbiguousStarMatch"}

C16_Witness ==
    /\ ApplyFinished
    /\ call.err = "StarSizeMismatch"
    /\ Len(q_point_group) >= 2
    /\ \E i \in 1..Len(q_point_group) : SizeOk(i)

\* C17 as stated: ApplyQStar fails with AmbiguousStarMatch whenever some
\* supplied member is within tolerance of zero or of more than one member of
\* a recomputed star, and succeeds only when every supplied member has
\* exactly one match.
C17_AnyBadMatchReported ==
    ApplyFinished =>
        /\ (\E i \in 1..Len(q_point_group) : ~MatchOk(i))
              => call.err = "AmbiguousStarMatch"
        /\ call.err = "none" => \A i \in 1..Len(q_point_group) : MatchOk(i)

\* C17 amended: ApplyQStar fails with AmbiguousStarMatch when, for the
\* first supplied member whose pass fails, the recomputed star has the right
\* size and some supplied member has zero or more than one match in it; it
\* succeeds only when every supplied member has exactly one match in every
\* recomputed star.
C17_BadMatchAfterSizeCheck ==
    ApplyFinished =>
        /\ \A i \in 1..Len(q_point_group) :
              (/\ \A j \in 1..(i - 1) : SizeOk(j) /\ MatchOk(j)
               /\ SizeOk(i)
               /\ ~MatchOk(i)) => call.err = "AmbiguousStarMatch"
        /\ call.err = "none" => \A i \in 1..Len(q_point_group) : MatchOk(i)

C17_Witness ==
    /\ ApplyFinished
    /\ call.err = "AmbiguousStarMatch"
    /\ SizeOk(1)
    /\ \E x \in 1..Len(q_point_group) :
           Near(RecomputedStar(1), q_point_group[x]) = {}

ApplyReturned == ApplyFinished /\ call.err = "none"

\* the member of the star recomputed for member i that the supplied member
\* x is matched to
MatchedMember(i, x) ==
    CHOOSE y \in 1..Len(RecomputedStar(i)) :
        EqVect(RecomputedStar(i)[y], q_point_group[x])

\* C18: on success over a star of n members the matrix written for each
\* target x is the sum over the n originating members i, each taken once, of
\* the image of matrix i at the star member matched to x, divided by n; the
\* stack holds nothing but these averages.
C18_AverageOverStar ==
    ApplyReturned =>
        LET n == Len(q_point_group)
        IN  /\ Len(fcq) = n
            /\ \A x \in 1..n :
                  /\ fcq[x].div = n
                  /\ Len(fcq[x].terms) = n
                  /\ \A i \in 1..n :
                        fcq[x].terms[i] = <<i, MatchedMember(i, x)>>

C18_Witness ==
    /\ ApplyReturned
    /\ Len(q_point_group) >= 2
    /\ \A a \in 1..Len(q_point_group) : \A b \in 1..Len(q_point_group) :
           a # b => ~EqVect(q_point_group[a], q_point_group[b])
    /\ \E x \in 1..Len(q_point_group) : \E i \in 1..Len(q_point_group) :
           fcq[x].terms[i][2] # x

\* ------------------------------------------------------------------------
\* Properties of ApplySymmetryToMatrix
\* ------------------------------------------------------------------------

\* element (a, b) of the sum of the images, by the first k operations of
\* the table, of the tensor that is 1 at (i, j) and 0 elsewhere
RECURSIVE UnitImage(_, _, _, _, _)
UnitImage(a, b, i, j, k) ==
    IF k = 0 THEN 0
    ELSE QE_s[k][a][i] * QE_s[k][b][j] + UnitImage(a, b, i, j, k - 1)

\* the elements the symmetrized unit tensor (i, j) is not zero at
Selected(i, j) ==
    {ab \in (1..3) \X (1..3) : UnitImage(ab[1], ab[2], i, j, QE_nsymq) # 0}

Square(x) == x * x

\* the sum of the squares of the elements of e at the cells
SquaresOver(e, cells) ==
    LET term(a, b) == IF <<a, b>> \in cells THEN Square(e[a][b]) ELSE 0
    IN  term(1, 1) + term(1, 2) + term(1, 3)
      + term(2, 1) + term(2, 2) + term(2, 3)
      + term(3, 1) + term(3, 2) + term(3, 3)

TensorReturned ==
    /\ pc = "done"
    /\ call.op = "ApplySymmetryToMatrix"
    /\ call.err = "none"
    /\ call.arg[2] # None

\* C19: with an error tensor, the output error (i, j) is the square root of
\* the sum of the squares of the errors handed in at the elements selected
\* by the mask of the symmetrized unit tensor (i, j), divided by their
\* number, and 0 when the mask is empty.
C19_ErrorPropagation ==
    TensorReturned =>
        \A i \in 1..3 : \A j \in 1..3 :
            LET sel == Selected(i, j)
                e   == out.err[i][j]
            IN  IF sel = {}
                THEN e.sumsq = 0
                ELSE /\ e.sumsq = SquaresOver(call.arg[2], sel)
                     /\ e.n = Cardinality(sel)

C19_Witness ==
    /\ TensorReturned
    /\ call.arg[2][1][2] # call.arg[2][1][1]
    /\ \E i \in 1..3 : \E j \in 1..3 : Selected(i, j) = {}
    /\ \E i \in 1..3 : \E j \in 1..3 : Cardinality(Selected(i, j)) >= 2

\* ------------------------------------------------------------------------
\* Properties of ImposeSumRule
\* ------------------------------------------------------------------------

SumRuleFinished == pc = "done" /\ call.op = "ImposeSumRule"

\* the result r holds the values of the array a
SameValues(r, a, n) ==
    \A k \in 1..n : \A i \in 1..Len(a[k]) : \A j \in 1..Len(a[k][i]) :
        r.num[k][i][j] = r.den * a[k][i][j]

\* the caller's force constants and effective charges are as handed in
ArraysUnchanged ==
    /\ SameValues([num |-> <<out.fc.num>>, den |-> out.fc.den],
                  <<call.arg.force_constant>>, 1)
    /\ call.arg.zeu # NoArray =>
          SameValues(out.zeu, call.arg.zeu, Len(call.arg.zeu))

\* C20: with a mode outside {simple, crystal, one-dim, zero-dim, custom, no}
\* ImposeSumRule fails with InvalidASRMode and leaves the force constants
\* and the effective charges as they were; with mode 'no' it returns and
\* both are as they were.
C20_NoAndUnknownModes ==
    SumRuleFinished =>
        /\ call.arg.asr \notin (QE_asr \cup {"custom"})
              => call.err = "InvalidASRMode" /\ ArraysUnchanged
        /\ call.arg.asr = "no"
              => call.err = "none" /\ ArraysUnchanged

\* the matrix handed to CustomASR by the call just finished
CustomInput ==
    IF call.op = "CustomASR" THEN call.arg ELSE call.arg.force_constant

CustomFinished ==
    /\ pc = "done"
    /\ \/ call.op = "CustomASR"
       \/ call.op = "ImposeSumRule" /\ call.arg.asr = "custom"

\* square, of a size that is a multiple of 3
SquareOf3N(m) == Shape(m)[1] = Shape(m)[2] /\ Shape(m)[1] % 3 = 0

\* row r of the matrix m times the uniform displacement along d
TimesTranslation(m, r, d) ==
    SumTo([c \in 1..Len(m) |-> IF DirOf(c) = d THEN m[r][c] ELSE 0], Len(m))

\* C21: for a square matrix of size 3N CustomASR leaves a matrix whose
\* product with the uniform translation along each Cartesian direction is
\* zero and which a second CustomASR leaves as it is; a matrix that is not
\* square or whose size is not a multiple of 3 is rejected with an error
\* and left as it was.
C21_CustomASRProjects ==
    CustomFinished =>
        IF SquareOf3N(CustomInput)
        THEN /\ call.err = "none"
             /\ \A r \in 1..Len(out.fc.num) : \A d \in 1..3 :
                    TimesTranslation(out.fc.num, r, d) = 0
             /\ LET again == CustomASR(out.fc.num)
                IN  /\ again.err = "none"
                    /\ SameValues([num |-> <<again.fc.num>>,
                                   den |-> again.fc.den], <<out.fc.num>>, 1)
        ELSE /\ call.err # "none"
             /\ SameValues([num |-> <<out.fc.num>>, den |-> out.fc.den],
                           <<CustomInput>>, 1)

C21_Witness ==
    /\ CustomFinished
    /\ call.err = "none"
    /\ Len(CustomInput) >= 6
    /\ ~SameValues([num |-> <<out.fc.num>>, den |-> out.fc.den],
                   <<CustomInput>>, 1)

\* the effective charges the sum-rule primitive returns for the call just
\* finished, atom by atom in the layout of the caller (zeu[na] is the
\* tensor of atom na)
ReturnedCharges ==
    LET r == set_asr(call.arg.asr, N_atoms(structure),
                     call.arg.force_constant, einsum_kji(call.arg.zeu))
    IN  [num |-> [na \in 1..N_atoms(structure) |->
                     Transpose(r.f_zeu.num[na])],
         den |-> r.f_zeu.den]

Seen(o, m) ==
    [dynmats |-> m[o.dynmats], structure |-> o.structure,
     q_tot |-> m[o.q_tot], q_stars |-> m[o.q_stars]]

\* the steps that act on the object bound to name once it exists
Mutates(name) ==
    /\ name \in DOMAIN objs
    /\ pc = "idle"
    /\ call'.op \in {"LoadFromQE", "q_tot.append", "dynmats[0][0, 0] =",
                    "save_qe"}
    /\ call'.arg.name = name

\* C23: a step taken through one object changes nothing of what any other
\* object shows, in particular when one is the Copy of the other
C23_CopyIndependent ==
    [][\A c \in Names : \A p \in DOMAIN objs \ {c} :
          Mutates(c) => Seen(objs'[p], mem') = Seen(objs[p], mem)]_vars

\* the object a successful LoadFromQE, direct or from the constructor, has
\* just returned on
Loaded(name) ==
    /\ pc = "done"
    /\ call.op \in {"Phonons", "LoadFromQE"}
    /\ call.err = "none"
    /\ call.arg.prefix # <<>>
    /\ call.arg.name = name
    /\ name \in DOMAIN objs

RECURSIVE TotalLen(_)
TotalLen(stars) ==
    IF stars = <<>> THEN 0 ELSE Len(Head(stars)) + TotalLen(Tail(stars))

\* one matrix per q point, and every q point in one star
OneDynPerQ(name) ==
    /\ Len(mem[objs[name].dynmats]) = Len(mem[objs[name].q_tot])
    /\ Len(mem[objs[name].q_tot]) = TotalLen(mem[objs[name].q_stars])

\* C29: after every successful LoadFromQE the object has as many matrices
\* as q points, as many q points as its stars hold together, and as many
\* stars as nqirr (the nqirr of the object or that of the call)
C29_LengthsAgree ==
    \A name \in Names :
        Loaded(name) =>
            /\ OneDynPerQ(name)
            /\ Len(mem[objs[name].q_stars])
                   \in {objs[name].nqirr, call.arg.nqirr}

\* save_qe(prefix) has just returned on an initialized object that has
\* nqirr stars
Saved(name) ==
    /\ pc = "done"
    /\ call.op = "save_qe"
    /\ call.err = "none"
    /\ ~call.arg.full_name
    /\ call.arg.name = name
    /\ objs[name].initialized
    /\ Len(mem[objs[name].q_stars]) = objs[name].nqirr

\* what Phonons(prefix, nqirr) makes of the files as they are now
ReadBack(prefix, nqirr) ==
    LoadFromQEResult(files, NewPhonons(mem, nqirr), mem \o << <<>>, <<>>, <<>> >>,
                     prefix, nqirr, FALSE)

\* two matrices agree to the 8 decimals that are printed
SamePrinted(a, b) ==
    /\ Len(a) = Len(b)
    /\ \A r \in 1..Len(a) : \A c \in 1..Len(a) : \A k \in 1..2 :
           a[r][c][k] - b[r][c][k] \in -5..5

\* C24: the files save_qe(prefix) wrote for an initialized object with
\* nqirr stars are read by LoadFromQE(prefix, nqirr) into the same stars,
\* the same q points in the same order, and the same matrices to the
\* printed precision
C24_SaveLoadRoundTrip ==
    \A name \in DOMAIN objs :
        Saved(name) =>
            LET r     == ReadBack(call.arg.prefix, objs[name].nqirr)
                dyns  == mem[objs[name].dynmats]
                count == TotalLen(mem[objs[name].q_stars])
            IN  /\ r.err = "none"
                /\ r.mem[r.obj.q_stars] = mem[objs[name].q_stars]
                /\ Len(r.mem[r.obj.dynmats]) = count
                /\ \A i \in 1..count :
                       SamePrinted(r.mem[r.obj.dynmats][i], dyns[i])

\* ------------------------------------------------------------------------
\* Further properties of ApplyQStar
\* ------------------------------------------------------------------------

\* the matrices as the caller handed them in
FcqOnEntry == [x \in 1..Len(q_point_group) |-> InputMatrix(x)]

\* C26: while ApplyQStar runs, and when it has failed, at whichever pass,
\* fcq holds exactly the matrices it held on entry
C26_FailureLeavesFcq ==
    (call.op = "ApplyQStar" /\ call.err # "none") => fcq = FcqOnEntry

\* a call over two members that failed after q2qstar_out was applied
C26_Witness ==
    /\ ApplyFinished
    /\ call.err = "AmbiguousStarMatch"
    /\ symph_call.name = "q2qstar_out"
    /\ Len(q_point_group) >= 2
    /\ fcq = FcqOnEntry

\* C27: on success, for every originating member the supplied members are
\* matched one to one onto the members of the recomputed star, and no two
\* supplied members are the same q point
C27_MatchIsBijection ==
    ApplyReturned =>
        LET n == Len(q_point_group)
        IN  /\ \A i \in 1..n : \A a \in 1..n : \A b \in 1..n :
                   a # b => fcq[a].terms[i][2] # fcq[b].terms[i][2]
            /\ \A a \in 1..n : \A b \in 1..n :
                   a # b => ~EqVect(q_point_group[a], q_point_group[b])

\* ------------------------------------------------------------------------
\* Further properties of InitFromSymmetries
\* ------------------------------------------------------------------------

\* C28: right after InitFromSymmetries accepted a list, GetSymmetries
\* returns a list of the same length whose i-th entry has the rotation and
\* the translation of the i-th entry given, whatever the table held before
C28_SymmetriesRoundTrip ==
    InitFinished =>
        LET L    == call.arg.symmetries
            syms == GetSymmetries(Table)
        IN  /\ Len(syms) = Len(L)
            /\ \A i \in 1..Len(L) :
                   syms[i].rot = L[i].rot /\ syms[i].tr = L[i].tr

\* ------------------------------------------------------------------------
\* Properties of SymmetrizeFCQ
\* ------------------------------------------------------------------------

\* the positions in the log of the calls ev made for the index
Calls(log, ev, index) ==
    {k \in 1..Len(log) : log[k].ev = ev /\ log[k].index = index}

\* C25: every SymmetrizeDynQ of SymmetrizeFCQ is made for the matrix and
\* the q point of its index, on the table its own SetupQPoint left, with no
\* other discovery in between; the sum rule of that index, if any, comes
\* between the two; and ApplyQStar is called only after the
\* SymmetrizeDynQ of every q point
C25_PerQBeforeStars ==
    call.op = "SymmetrizeFCQ" =>
        LET log == symfcq.log
            nq  == Len(symfcq.q_points)
        IN  /\ \A k \in 1..Len(log) :
                   log[k].ev = "SymmetrizeDynQ" =>
                       /\ log[k].q = symfcq.q_points[log[k].index]
                       /\ \E j \in Calls(log, "SetupQPoint", log[k].index) :
                              /\ j < k
                              /\ log[j].q = log[k].q
                              /\ log[j].table = log[k].table
                              /\ \A m \in (j + 1)..(k - 1) :
                                     /\ log[m].ev = "ImposeSumRule"
                                     /\ log[m].index = log[k].index
                       /\ \A m \in Calls(log, "ImposeSumRule", log[k].index) :
                              m < k
            /\ \A k \in 1..Len(log) :
                   log[k].ev = "ApplyQStar" =>
                       \A iq \in 1..nq :
                           \E m \in Calls(log, "SymmetrizeDynQ", iq) : m < k

\* a call over several q points that imposed a sum rule and went through
\* all its stars
C25_Witness ==
    /\ pc = "done"
    /\ call.op = "SymmetrizeFCQ"
    /\ call.err = "none"
    /\ Len(symfcq.q_points) >= 3
    /\ \E k \in 1..Len(symfcq.log) : symfcq.log[k].ev = "ImposeSumRule"
    /\ \E k \in 1..Len(symfcq.log) : symfcq.log[k].ev = "ApplyQStar"

\* no matrix of fcq was written
Untouched(s) == \A x \in 1..Len(s.fcq) : s.fcq[x] = <<>>

\* the sum rule was imposed on the q points done so far as the value of
\* asr says
SumRuleWhereStated(s) ==
    \A iq \in 1..s.iq :
        (Calls(s.log, "ImposeSumRule", iq) # {})
            <=> \/ s.asr \in {"simple", "custom"}
                      /\ s.q_points[iq] = <<0, 0, 0>>
                \/ s.asr = "crystal"

\* C30: the sum rule is imposed on the q points of zero norm for 'simple'
\* and 'custom', on all for 'crystal', on none for 'no'; any other asr makes
\* the call fail with no matrix written; a number of matrices different
\* from the number of q points makes it fail with neither the table nor a
\* matrix touched
C30_SumRuleSelection ==
    [][call'.op = "SymmetrizeFCQ" =>
          /\ SumRuleWhereStated(symfcq')
          /\ symfcq'.asr \notin {"simple", "custom", "crystal", "no"} =>
                 /\ Untouched(symfcq')
                 /\ (pc' = "done" /\ call'.err # "CountMismatch")
                        => call'.err = "InvalidASR"
                 /\ (pc = "SymmetrizeFCQ") => call'.err = "InvalidASR"
          /\ pc = "idle" =>
                 /\ (Len(symfcq'.fcq) # Len(symfcq'.q_points))
                        <=> call'.err = "CountMismatch"
                 /\ call'.err = "CountMismatch" =>
                        /\ pc' = "done"
                        /\ UNCHANGED tableVars
                        /\ symfcq'.log = <<>>
                        /\ Untouched(symfcq')]_vars

============================================================================
